---- MODULE Spec2Model ----
(***************************************************************************)
(* Empirica research pipeline (src/empirica_v3.py).                        *)
(*                                                                         *)
(* Three specifications over one set of variables:                         *)
(*   SpecFetch  one call of WorldBankFetcher.fetch, page by page;          *)
(*   Spec       run_empirica from the returned plan through the x/y merge  *)
(*              and the control joins (every fetch runs the same page      *)
(*              loop as in SpecFetch);                                     *)
(*   SpecPlan   ai_parse_hypothesis: planner answer, tautology correction, *)
(*              control defaulting, validate_and_fix_indicators.           *)
(*                                                                         *)
(* Strings the code inspects character by character (indicator codes, the  *)
(* hypothesis text, the provider's date field) are sequences of            *)
(* one-character strings, so that split, startswith, lower, "in" and int() *)
(* are computed and not assumed.                                           *)
(***************************************************************************)
EXTENDS Integers, Sequences, FiniteSets, TLC

VARIABLES
    hypothesis,        \* ai_parse_hypothesis: hypothesis_text
    plan,              \* the plan dict (ai_parse_hypothesis / run_empirica)
    ppc,               \* position inside ai_parse_hypothesis
    taut,              \* value check_tautology returned at line 484
    answer,            \* history: the pair the text-generation service chose
    vlog,              \* history: what the latest validated variable was answered
    rpc,               \* position inside run_empirica
    x_data, y_data,    \* run_empirica: fetched x and y series
    df,                \* run_empirica: the panel
    controls_fetched,  \* run_empirica: controls actually joined
    ctrl_i,            \* run_empirica: index of the control being fetched
    ctrl_sizes,        \* history: len(cd) of every control fetched so far
    fpc,               \* position inside WorldBankFetcher.fetch
    indicator,         \* fetch: indicator argument
    page,              \* fetch: page
    attempt,           \* fetch: attempt (loop variable of range(3))
    all_data,          \* fetch: all_data
    tries,             \* history: requests issued so far for the current page
    last_req,          \* history: page and outcome of the latest request
    agg_seen,          \* history: the provider sent a record of an aggregate
    cpc,               \* position of the caller of apply_cleaning
    review,            \* the review dict (ai_review_data / apply_cleaning)
    df_in,             \* history: the frame the latest apply_cleaning was given
    results,           \* run_empirica: the bundle run_all returned
    error,             \* message of the exception that left the function
    fit_raised,        \* history: the fits whose library call raised
    stages,            \* history: the stages run_empirica has invoked
    credential,        \* the environment holds ANTHROPIC_API_KEY
    asks,              \* history: calls of ask_claude so far
    lookups,           \* history: requests the validator sent to the provider
    environ,           \* os.environ["ANTHROPIC_API_KEY"] of the app's process
    app,               \* app.py: the script runs (sessions) and their worker threads
    raw,               \* ask_claude_json: the text ask_claude returned
    parsed,            \* ask_claude_json: what the call returned or raised
    ss_results,        \* LiteratureSearcher.search: ss_results
    pm_results,        \* LiteratureSearcher.search: pm_results
    literature,        \* run_empirica: the list LiteratureSearcher.search returned
    charts,            \* run_empirica: scatterplot_path and coeff_plot_path
    reported,          \* history: the controls each downstream output names
    df_arg,            \* the frame object given to apply_cleaning, after the call
    df_prev            \* history: what the previous apply_cleaning call returned

planVars  == <<hypothesis, plan, ppc, taut, answer, vlog>>
runVars   == <<rpc, x_data, y_data, df, controls_fetched, ctrl_i, ctrl_sizes>>
fetchVars == <<fpc, indicator, page, attempt, all_data, tries, last_req, agg_seen>>
tailVars  == <<cpc, review, df_in, results, fit_raised, credential>>
appVars   == <<environ, app>>
jsonVars  == <<raw, parsed>>
litVars   == <<ss_results, pm_results, literature>>
endVars   == <<charts, reported>>
objVars   == <<df_arg, df_prev>>
restVars  == <<environ, app, raw, parsed, ss_results, pm_results, literature,
               charts, reported, df_arg, df_prev>>
vars      == <<hypothesis, plan, ppc, taut, answer, vlog, rpc, x_data, y_data, df,
               controls_fetched, ctrl_i, ctrl_sizes, fpc, indicator, page, attempt,
               all_data, tries, last_req, agg_seen, cpc, review, df_in, results,
               error, fit_raised, stages, credential, asks, lookups,
               environ, app, raw, parsed, ss_results, pm_results, literature,
               charts, reported, df_arg, df_prev>>

(***************************************************************************)
(* Bounds of the model.                                                    *)
(***************************************************************************)
\* largest page count the provider reports in SpecFetch
MaxPages == 3
\* most records on one provider page in SpecFetch
MaxPageRecs == 1
\* most records on one provider page in Spec (run_empirica)
RunPageRecs == 2
\* most control_vars of the plan run_empirica starts from
MaxControls == 2
\* most control_vars in the planner's answer
MaxPlanControls == 2

\* All sequences over S of length at most n.
BSeq(S, n) == UNION {[1..k -> S] : k \in 0..n}

\* Python None / pandas NaN: the empty option; a present value v is <<v>>.
None == <<>>
Some(v) == <<v>>

(***************************************************************************)
(* Character-level string helpers (str.split, str.startswith, str.lower,   *)
(* "needle in text", str.replace, int()).                                  *)
(***************************************************************************)
UpperChars == <<"A","B","C","D","E","F","G","H","I","J","K","L","M","N","O","P","Q","R","S","T","U","V","W","X","Y","Z">>
LowerChars == <<"a","b","c","d","e","f","g","h","i","j","k","l","m","n","o","p","q","r","s","t","u","v","w","x","y","z">>
DigitChars == <<"0","1","2","3","4","5","6","7","8","9">>

\* str.lower() on one character, then on a string
lower_char(c) ==
    IF \E i \in 1..Len(UpperChars) : UpperChars[i] = c
    THEN LowerChars[CHOOSE i \in 1..Len(UpperChars) : UpperChars[i] = c]
    ELSE c

lower(s) == [i \in 1..Len(s) |-> lower_char(s[i])]

\* s.startswith(p)
startswith(s, p) == Len(s) >= Len(p) /\ SubSeq(s, 1, Len(p)) = p

\* needle in text
contains(text, needle) ==
    \E i \in 1..(Len(text) - Len(needle) + 1) :
        SubSeq(text, i, i + Len(needle) - 1) = needle

\* s.split("."): the list of the dot-delimited segments
RECURSIVE split_from(_, _, _)
split_from(s, i, cur) ==
    IF i > Len(s) THEN <<cur>>
    ELSE IF s[i] = "." THEN <<cur>> \o split_from(s, i + 1, <<>>)
    ELSE split_from(s, i + 1, Append(cur, s[i]))

split(s) == split_from(s, 1, <<>>)

\* s.replace(".", "_")
replace_dots(s) == [i \in 1..Len(s) |-> IF s[i] = "." THEN "_" ELSE s[i]]

\* int(s) for a string of decimal digits
digit_value(c) == (CHOOSE i \in 1..Len(DigitChars) : DigitChars[i] = c) - 1

RECURSIVE int_of(_)
int_of(s) ==
    IF Len(s) = 0 THEN 0
    ELSE 10 * int_of(SubSeq(s, 1, Len(s) - 1)) + digit_value(s[Len(s)])

(***************************************************************************)
(* Indicator codes used by the code and by the provider/planner inputs.    *)
(***************************************************************************)
c_SH_XPD_CHEX_GD_ZS == <<"S","H",".","X","P","D",".","C","H","E","X",".","G","D",".","Z","S">>
c_SP_DYN_LE00_IN == <<"S","P",".","D","Y","N",".","L","E","0","0",".","I","N">>
c_SE_XPD_TOTL_GD_ZS == <<"S","E",".","X","P","D",".","T","O","T","L",".","G","D",".","Z","S">>
c_NY_GDP_PCAP_PP_KD == <<"N","Y",".","G","D","P",".","P","C","A","P",".","P","P",".","K","D">>
c_IT_NET_USER_ZS == <<"I","T",".","N","E","T",".","U","S","E","R",".","Z","S">>
c_SE_SEC_ENRR == <<"S","E",".","S","E","C",".","E","N","R","R">>
c_SP_URB_TOTL_IN_ZS == <<"S","P",".","U","R","B",".","T","O","T","L",".","I","N",".","Z","S">>
c_NY_GDP_MKTP_KD_ZG == <<"N","Y",".","G","D","P",".","M","K","T","P",".","K","D",".","Z","G">>
c_SL_UEM_TOTL_ZS == <<"S","L",".","U","E","M",".","T","O","T","L",".","Z","S">>
c_SL_UEM_ADVN_ZS == <<"S","L",".","U","E","M",".","A","D","V","N",".","Z","S">>
c_SP_DYNX_A == <<"S","P",".","D","Y","N","X",".","A">>
c_GE_EST == <<"G","E",".","E","S","T">>

(***************************************************************************)
(* WorldBankFetcher                                                        *)
(***************************************************************************)
AGGREGATES == {
    "WLD", "HIC", "LIC", "LMC", "MIC", "UMC", "LMY", "HPC",
    "EAS", "ECS", "LCN", "MEA", "NAC", "SAS", "SSF", "AFE",
    "AFW", "ARB", "CEB", "CSS", "EAP", "EAR", "EMU", "EUU",
    "FCS", "IDA", "IDX", "LAC", "LDC", "LTE", "MNA", "OED",
    "OSS", "PRE", "PSS", "PST", "SSA", "SST", "TEA", "TEC",
    "TLA", "TMN", "TSA", "TSS", "IBD", "IBT", "IDB" }

\* range(3): the attempts of one page
MAX_ATTEMPTS == 3

\* provider "date" fields
d_2020 == <<"2","0","2","0">>
d_2021 == <<"2","0","2","1">>

\* One element of resp_data[1] as the provider sends it.
Rec(id, name, date, value) ==
    [country |-> [id |-> id, value |-> name], date |-> date, value |-> value]

\* The records the provider may put on a page for an indicator: real
\* countries, a record with a null value, and records of aggregates.  The
\* enrollment series has no observation for a key the x and y series share.
ProviderRecords(ind) ==
    IF ind = c_SH_XPD_CHEX_GD_ZS THEN
        { Rec("ARG", "Argentina", d_2020, Some(5)),
          Rec("BRA", "Brazil", d_2020, Some(7)),
          Rec("BRA", "Brazil", d_2021, None),
          Rec("WLD", "World", d_2020, Some(9)) }
    ELSE IF ind = c_SP_DYN_LE00_IN THEN
        { Rec("ARG", "Argentina", d_2020, Some(10)),
          Rec("ARG", "Argentina", d_2021, Some(11)),
          Rec("BRA", "Brazil", d_2020, None),
          Rec("EUU", "European Union", d_2020, Some(80)) }
    ELSE IF ind = c_SE_SEC_ENRR THEN
        { Rec("ARG", "Argentina", d_2021, Some(3)),
          Rec("BRA", "Brazil", d_2020, None),
          Rec("WLD", "World", d_2020, Some(2)) }
    ELSE
        { Rec("ARG", "Argentina", d_2020, Some(1)),
          Rec("BRA", "Brazil", d_2020, None),
          Rec("WLD", "World", d_2020, Some(2)) }

\* resp.json(): a falsy body, a one-element body (the provider's error
\* message), or [meta, records]; meta may lack "pages".
Meta(pageCounts) == {[total |-> 0]} \cup {[total |-> 0, pages |-> p] : p \in pageCounts}

Responses(ind, pageCounts, maxRecs) ==
    {<<>>} \cup {<<m>> : m \in Meta(pageCounts)}
    \cup {<<m, recs>> : m \in Meta(pageCounts), recs \in BSeq(ProviderRecords(ind), maxRecs)}

\* resp_data[0].get("pages", 1)
pages_of(meta) == IF "pages" \in DOMAIN meta THEN meta.pages ELSE 1

\* lines 578-581: value is not None and cc not in self.AGGREGATES
keep_record_unfiltered(record) == record.value # None

keep_record(record) ==
    record.value # None /\ record.country.id \notin AGGREGATES

\* lines 582-587: the Observation appended for a record; int() parses the
\* date string, float() keeps the number the provider sent
observation(record) ==
    [country |-> record.country.value,
     country_code |-> record.country.id,
     year |-> int_of(record.date),
     value |-> record.value[1]]

\* lines 577-587: the observations one page appends to all_data
RECURSIVE page_observations(_)
page_observations(recs) ==
    IF Len(recs) = 0 THEN <<>>
    ELSE (IF keep_record(Head(recs)) THEN <<observation(Head(recs))>> ELSE <<>>)
         \o page_observations(Tail(recs))

\* lines 571-575: not resp_data, len(resp_data) < 2 or not resp_data[1]
page_empty(resp_data) ==
    Len(resp_data) < 2 \/ Len(resp_data[2]) = 0

\* line 589: page >= resp_data[0].get("pages", 1)
last_page_strict(p, resp_data) == p > pages_of(resp_data[1])

last_page(p, resp_data) == p >= pages_of(resp_data[1])

NoReq == [page |-> 0, kind |-> "none", empty |-> FALSE, pages |-> 0]

\* locals of fetch at entry (lines 549-550)
fetch_enter(ind) ==
    /\ fpc' = "request"
    /\ indicator' = ind
    /\ page' = 1
    /\ attempt' = 0
    /\ all_data' = <<>>
    /\ tries' = 0
    /\ last_req' = NoReq
    /\ agg_seen' = FALSE

\* no call of fetch is active
fetch_idle ==
    /\ fpc = "idle"
    /\ indicator = <<>>
    /\ page = 0
    /\ attempt = 0
    /\ all_data = <<>>
    /\ tries = 0
    /\ last_req = NoReq
    /\ agg_seen = FALSE

fetch_leave ==
    /\ fpc' = "idle"
    /\ indicator' = <<>>
    /\ page' = 0
    /\ attempt' = 0
    /\ all_data' = <<>>
    /\ tries' = 0
    /\ last_req' = NoReq
    /\ agg_seen' = FALSE

\* lines 558-569 when the third attempt is not special: the loop retries
\* for as long as requests fail
fetch_attempt_fails_unbounded ==
    /\ fpc = "request"
    /\ tries' = tries + 1
    /\ last_req' = [page |-> page, kind |-> "fail", empty |-> FALSE, pages |-> 0]
    /\ attempt' = attempt + 1
    /\ fpc' = IF attempt < MAX_ATTEMPTS THEN "request" ELSE "ret"
    /\ UNCHANGED <<indicator, page, all_data, agg_seen>>
    /\ UNCHANGED planVars
    /\ UNCHANGED tailVars
    /\ UNCHANGED <<error, stages, asks, lookups>>
    /\ UNCHANGED runVars
    /\ UNCHANGED restVars

\* lines 558-572: requests.get / raise_for_status / resp.json() raises.
\* Attempts 0 and 1 sleep and go round again; the third leaves resp_data
\* None, so the while loop breaks and fetch returns all_data.
fetch_attempt_fails ==
    /\ fpc = "request"
    /\ tries' = tries + 1
    /\ last_req' = [page |-> page, kind |-> "fail", empty |-> FALSE, pages |-> 0]
    /\ IF attempt < MAX_ATTEMPTS - 1
       THEN /\ attempt' = attempt + 1
            /\ fpc' = "request"
       ELSE /\ attempt' = attempt
            /\ fpc' = "ret"
    /\ UNCHANGED <<indicator, page, all_data, agg_seen>>
    /\ UNCHANGED planVars
    /\ UNCHANGED tailVars
    /\ UNCHANGED <<error, stages, asks, lookups>>
    /\ UNCHANGED runVars
    /\ UNCHANGED restVars

\* lines 560-591: the request succeeds with body resp_data; the retry loop
\* breaks, the page is screened and appended, and the while loop either
\* breaks or moves to the next page.
fetch_attempt_succeeds(resp_data) ==
    /\ fpc = "request"
    /\ IF page_empty(resp_data)
       THEN /\ last_req' = [page |-> page, kind |-> "ok", empty |-> TRUE,
                            pages |-> IF Len(resp_data) >= 1
                                      THEN pages_of(resp_data[1]) ELSE 0]
            /\ fpc' = "ret"
            /\ tries' = tries + 1
            /\ UNCHANGED <<page, attempt, all_data, agg_seen>>
       ELSE /\ last_req' = [page |-> page, kind |-> "ok", empty |-> FALSE,
                            pages |-> pages_of(resp_data[1])]
            /\ all_data' = all_data \o page_observations(resp_data[2])
            /\ agg_seen' = (agg_seen \/ \E i \in 1..Len(resp_data[2]) :
                                resp_data[2][i].value # None
                                /\ resp_data[2][i].country.id \in AGGREGATES)
            /\ IF last_page(page, resp_data)
               THEN /\ fpc' = "ret"
                    /\ tries' = tries + 1
                    /\ UNCHANGED <<page, attempt>>
               ELSE /\ fpc' = "request"
                    /\ page' = page + 1
                    /\ attempt' = 0
                    /\ tries' = 0
    /\ UNCHANGED indicator
    /\ UNCHANGED planVars
    /\ UNCHANGED tailVars
    /\ UNCHANGED <<error, stages, asks, lookups>>
    /\ UNCHANGED runVars
    /\ UNCHANGED restVars

(***************************************************************************)
(* run_empirica: fetch x and y, inner join, fetch and left-join controls.  *)
(***************************************************************************)
\* default_controls of ai_parse_hypothesis (lines 508-512), also the pool
\* the plans of Spec take their control_vars from
default_controls == <<
    [code |-> c_NY_GDP_PCAP_PP_KD, label |-> "GDP per capita (PPP)"],
    [code |-> c_SE_SEC_ENRR, label |-> "Secondary school enrollment"],
    [code |-> c_SP_URB_TOTL_IN_ZS, label |-> "Urban population (%)"] >>

ControlPool == {default_controls[i] : i \in 1..Len(default_controls)}

\* Plans run_empirica starts from: a plan ai_parse_hypothesis returns for
\* the health-spending hypothesis, with two or more distinct controls (the
\* planner's own, or the defaults in their order).
RunPlans ==
    {[independent_var |-> c_SH_XPD_CHEX_GD_ZS,
      dependent_var |-> c_SP_DYN_LE00_IN,
      x_label |-> "Current health expenditure (% of GDP)",
      y_label |-> "Life expectancy at birth (years)",
      control_vars |-> cv] :
        cv \in {s \in BSeq(ControlPool, MaxControls) :
                    /\ Len(s) >= 2
                    /\ \E f \in [1..Len(s) -> 1..Len(default_controls)] :
                          /\ \A i \in 1..Len(s) : s[i] = default_controls[f[i]]
                          /\ \A i, j \in 1..Len(s) : i < j => f[i] < f[j]}}

\* line 1512: cn = f"control_{ctrl['code'].replace('.', '_')}"
control_column(code) == <<"c","o","n","t","r","o","l","_">> \o replace_dots(code)

\* x_data.rename(columns={"value": "x"}) joined with one y observation
base_row(xo, yo) ==
    [country |-> xo.country, country_code |-> xo.country_code,
     year |-> xo.year, x |-> xo.value, y |-> yo.value, c |-> <<>>]

\* key on the country alone
RECURSIVE matching_country_only(_, _)
matching_country_only(l, right) ==
    IF Len(right) = 0 THEN <<>>
    ELSE (IF Head(right).country = l.country
          THEN <<Head(right)>> ELSE <<>>) \o matching_country_only(l, Tail(right))

\* the rows of right whose (country, year) equal those of the left row
RECURSIVE matching(_, _)
matching(l, right) ==
    IF Len(right) = 0 THEN <<>>
    ELSE (IF Head(right).country = l.country /\ Head(right).year = l.year
          THEN <<Head(right)>> ELSE <<>>) \o matching(l, Tail(right))

\* lines 1503-1506: DataFrame.merge(on=["country", "year"]), how="inner":
\* one row per pair of a left and a right row with the same key
RECURSIVE merge_inner(_, _)
merge_inner(xd, yd) ==
    IF Len(xd) = 0 THEN <<>>
    ELSE LET m == matching(Head(xd), yd)
         IN [i \in 1..Len(m) |-> base_row(Head(xd), m[i])] \o merge_inner(Tail(xd), yd)

\* a left join that behaves as an inner join: unmatched rows are lost
RECURSIVE merge_left_dropping(_, _)
merge_left_dropping(rows, cd) ==
    IF Len(rows) = 0 THEN <<>>
    ELSE LET l == Head(rows)
             m == matching(l, cd)
         IN [i \in 1..Len(m) |-> [l EXCEPT !.c = Append(l.c, Some(m[i].value))]]
            \o merge_left_dropping(Tail(rows), cd)

\* line 1514: df.merge(cd[["country", "year", cn]], on=[...], how="left"):
\* every left row is kept, with NaN in the new column when cd has no row of
\* its key, and once per matching row of cd otherwise
RECURSIVE merge_left(_, _)
merge_left(rows, cd) ==
    IF Len(rows) = 0 THEN <<>>
    ELSE LET l == Head(rows)
             m == matching(l, cd)
         IN (IF Len(m) = 0
             THEN <<[l EXCEPT !.c = Append(l.c, None)]>>
             ELSE [i \in 1..Len(m) |-> [l EXCEPT !.c = Append(l.c, Some(m[i].value))]])
            \o merge_left(Tail(rows), cd)

NoFrame == [cols |-> <<>>, rows |-> <<>>]

\* lines 1497-1498: wb.fetch(plan["independent_var"], ...)
run_call_fetch_x ==
    /\ rpc = "call_x"
    /\ fpc = "idle"
    /\ fetch_enter(plan.independent_var)
    /\ rpc' = "in_x"
    /\ UNCHANGED <<x_data, y_data, df, controls_fetched, ctrl_i, ctrl_sizes>>
    /\ UNCHANGED planVars
    /\ UNCHANGED tailVars
    /\ stages' = Append(stages, "fetch_x")
    /\ UNCHANGED <<error, asks, lookups>>
    /\ UNCHANGED restVars

\* line 1498: x_data = the DataFrame fetch returned
run_return_x ==
    /\ rpc = "in_x"
    /\ fpc = "ret"
    /\ x_data' = all_data
    /\ fetch_leave
    /\ rpc' = "call_y"
    /\ UNCHANGED <<y_data, df, controls_fetched, ctrl_i, ctrl_sizes>>
    /\ UNCHANGED planVars
    /\ UNCHANGED tailVars
    /\ UNCHANGED <<error, stages, asks, lookups>>
    /\ UNCHANGED restVars

\* line 1499: wb.fetch(plan["dependent_var"], ...)
run_call_fetch_y ==
    /\ rpc = "call_y"
    /\ fpc = "idle"
    /\ fetch_enter(plan.dependent_var)
    /\ rpc' = "in_y"
    /\ UNCHANGED <<x_data, y_data, df, controls_fetched, ctrl_i, ctrl_sizes>>
    /\ UNCHANGED planVars
    /\ UNCHANGED tailVars
    /\ stages' = Append(stages, "fetch_y")
    /\ UNCHANGED <<error, asks, lookups>>
    /\ UNCHANGED restVars

\* line 1499: y_data = the DataFrame fetch returned
run_return_y ==
    /\ rpc = "in_y"
    /\ fpc = "ret"
    /\ y_data' = all_data
    /\ fetch_leave
    /\ rpc' = "merge"
    /\ UNCHANGED <<x_data, df, controls_fetched, ctrl_i, ctrl_sizes>>
    /\ UNCHANGED planVars
    /\ UNCHANGED tailVars
    /\ UNCHANGED <<error, stages, asks, lookups>>
    /\ UNCHANGED restVars

\* line 1501: the message of the ValueError
msg_no_data == <<"C","o","u","l","d"," ","n","o","t"," ","f","e","t","c","h"," ","d","a","t","a"," ","f","r","o","m"," ","W","o","r","l","d"," ","B","a","n","k",".">>

\* lines 1500-1508: raise on an empty series, else the inner join and
\* controls_fetched = []
run_merge ==
    /\ rpc = "merge"
    /\ IF Len(x_data) = 0 \/ Len(y_data) = 0
       THEN /\ rpc' = "raised"
            /\ error' = msg_no_data
            /\ UNCHANGED <<df, controls_fetched, ctrl_i, stages>>
       ELSE /\ df' = [cols |-> <<>>, rows |-> merge_inner(x_data, y_data)]
            /\ controls_fetched' = <<>>
            /\ ctrl_i' = 1
            /\ rpc' = "controls"
            /\ stages' = Append(stages, "merge")
            /\ UNCHANGED error
    /\ UNCHANGED <<x_data, y_data, ctrl_sizes>>
    /\ UNCHANGED fetchVars
    /\ UNCHANGED planVars
    /\ UNCHANGED tailVars
    /\ UNCHANGED <<asks, lookups>>
    /\ UNCHANGED restVars

\* lines 1509-1510: the next ctrl of plan["control_vars"] is fetched
run_call_fetch_control ==
    /\ rpc = "controls"
    /\ fpc = "idle"
    /\ ctrl_i <= Len(plan.control_vars)
    /\ fetch_enter(plan.control_vars[ctrl_i].code)
    /\ rpc' = "in_control"
    /\ UNCHANGED <<x_data, y_data, df, controls_fetched, ctrl_i, ctrl_sizes>>
    /\ UNCHANGED planVars
    /\ UNCHANGED tailVars
    /\ stages' = Append(stages, "fetch_control")
    /\ UNCHANGED <<error, asks, lookups>>
    /\ UNCHANGED restVars

\* the loop body when "if not cd.empty" is missing: every control is joined
run_return_control_always ==
    /\ rpc = "in_control"
    /\ fpc = "ret"
    /\ df' = [cols |-> Append(df.cols, control_column(plan.control_vars[ctrl_i].code)),
              rows |-> merge_left(df.rows, all_data)]
    /\ controls_fetched' = Append(controls_fetched, plan.control_vars[ctrl_i])
    /\ ctrl_i' = ctrl_i + 1
    /\ ctrl_sizes' = Append(ctrl_sizes, Len(all_data))
    /\ fetch_leave
    /\ rpc' = "controls"
    /\ UNCHANGED <<x_data, y_data>>
    /\ UNCHANGED planVars
    /\ UNCHANGED tailVars
    /\ UNCHANGED <<error, stages, asks, lookups>>
    /\ UNCHANGED restVars

\* lines 1510-1515: cd = the fetched series; when it is not empty it is
\* left-joined as column cn and ctrl is appended to controls_fetched
run_return_control ==
    /\ rpc = "in_control"
    /\ fpc = "ret"
    /\ IF Len(all_data) # 0
       THEN /\ df' = [cols |-> Append(df.cols, control_column(plan.control_vars[ctrl_i].code)),
                      rows |-> merge_left(df.rows, all_data)]
            /\ controls_fetched' = Append(controls_fetched, plan.control_vars[ctrl_i])
       ELSE UNCHANGED <<df, controls_fetched>>
    /\ ctrl_i' = ctrl_i + 1
    /\ ctrl_sizes' = Append(ctrl_sizes, Len(all_data))
    /\ fetch_leave
    /\ rpc' = "controls"
    /\ UNCHANGED <<x_data, y_data>>
    /\ UNCHANGED planVars
    /\ UNCHANGED tailVars
    /\ UNCHANGED <<error, stages, asks, lookups>>
    /\ UNCHANGED restVars

\* line 1517: the for loop over control_vars is exhausted
run_controls_done ==
    /\ rpc = "controls"
    /\ ctrl_i > Len(plan.control_vars)
    /\ rpc' = "merged"
    /\ UNCHANGED <<x_data, y_data, df, controls_fetched, ctrl_i, ctrl_sizes>>
    /\ UNCHANGED fetchVars
    /\ UNCHANGED planVars
    /\ UNCHANGED tailVars
    /\ UNCHANGED <<error, stages, asks, lookups>>
    /\ UNCHANGED restVars

(***************************************************************************)
(* Specifications                                                          *)
(***************************************************************************)
AppIdle ==
    /\ environ = <<>>
    /\ app = <<>>

JsonIdle ==
    /\ raw = <<>>
    /\ parsed = <<>>

LitIdle ==
    /\ ss_results = <<>>
    /\ pm_results = <<>>
    /\ literature = <<>>

EndIdle ==
    /\ charts = <<>>
    /\ reported = <<>>

ObjIdle ==
    /\ df_arg = NoFrame
    /\ df_prev = NoFrame

\* the app, ask_claude_json on a text, the literature search and the
\* stages after the statistics have not started
RestIdle ==
    /\ AppIdle
    /\ JsonIdle
    /\ LitIdle
    /\ EndIdle
    /\ ObjIdle

PlanIdle ==
    /\ hypothesis = <<>>
    /\ ppc = "none"
    /\ taut = FALSE
    /\ answer = <<>>
    /\ vlog = <<>>

RunIdle ==
    /\ rpc = "none"
    /\ x_data = <<>>
    /\ y_data = <<>>
    /\ df = NoFrame
    /\ controls_fetched = <<>>
    /\ ctrl_i = 0
    /\ ctrl_sizes = <<>>

\* the stages after the panel is built have not started
TailIdle ==
    /\ cpc = "none"
    /\ review = <<>>
    /\ df_in = NoFrame
    /\ results = <<>>
    /\ error = <<>>
    /\ fit_raised = {}
    /\ stages = <<>>
    /\ credential = TRUE
    /\ asks = 0
    /\ lookups = 0

\* SpecFetch: wb.fetch(plan["dependent_var"], ...) has just been entered.
InitFetch ==
    /\ PlanIdle
    /\ plan \in RunPlans
    /\ plan.control_vars = SubSeq(default_controls, 1, 2)
    /\ RunIdle
    /\ TailIdle
    /\ fpc = "request"
    /\ indicator = plan.dependent_var
    /\ page = 1
    /\ attempt = 0
    /\ all_data = <<>>
    /\ tries = 0
    /\ last_req = NoReq
    /\ agg_seen = FALSE
    /\ RestIdle

NextFetch ==
    \/ fetch_attempt_fails
    \/ \E resp_data \in Responses(indicator, 1..MaxPages, MaxPageRecs) :
            fetch_attempt_succeeds(resp_data)

SpecFetch == InitFetch /\ [][NextFetch]_vars

\* every request comes back (timeout=45) and the loop runs on
FairSpecFetch == SpecFetch /\ WF_vars(NextFetch)

\* Spec: run_empirica after line 1493 returned the plan.  The provider
\* answers every indicator of the run with a single page.
Init ==
    /\ PlanIdle
    /\ TailIdle
    /\ plan \in RunPlans
    /\ rpc = "call_x"
    /\ x_data = <<>>
    /\ y_data = <<>>
    /\ df = NoFrame
    /\ controls_fetched = <<>>
    /\ ctrl_i = 0
    /\ ctrl_sizes = <<>>
    /\ fetch_idle
    /\ RestIdle

Next ==
    \/ run_call_fetch_x
    \/ run_return_x
    \/ run_call_fetch_y
    \/ run_return_y
    \/ run_merge
    \/ run_call_fetch_control
    \/ run_return_control
    \/ run_controls_done
    \/ fetch_attempt_fails
    \/ \E resp_data \in Responses(indicator, {1}, RunPageRecs) :
            fetch_attempt_succeeds(resp_data)

Spec == Init /\ [][Next]_vars

(***************************************************************************)
(* Properties of WorldBankFetcher.fetch and of the merge in run_empirica   *)
(***************************************************************************)
\* (country, year) of an observation or of a panel row
key(r) == <<r.country, r.year>>

\* C1: no Observation accumulated or returned by fetch has a country_code
\* of the AGGREGATES denylist, whatever pages the provider sent.
C1_NoAggregateFetched ==
    \A i \in 1..Len(all_data) : all_data[i].country_code \notin AGGREGATES

\* fetch returned observations after the provider had sent an aggregate
C1_Witness ==
    /\ fpc = "ret"
    /\ agg_seen
    /\ Len(all_data) > 0

x_example == << [country |-> "Argentina", country_code |-> "ARG", year |-> 2020, value |-> 5],
                [country |-> "Brazil", country_code |-> "BRA", year |-> 2020, value |-> 7] >>
y_example == << [country |-> "Argentina", country_code |-> "ARG", year |-> 2020, value |-> 10] >>

\* the base panel has just been built (line 1506) and no control is joined
BasePanelBuilt == rpc = "controls" /\ ctrl_i = 1

\* C2: the base panel has a row for a (country, year) key exactly when the
\* x series and the y series both have an observation of that key, every
\* row carries the values of such a pair and every such pair has its row;
\* x = [Argentina 2020 5, Brazil 2020 7] and y = [Argentina 2020 10] give
\* the single row Argentina 2020 x=5 y=10.
C2_InnerJoin ==
    BasePanelBuilt =>
        /\ \A i \in 1..Len(x_data), j \in 1..Len(y_data) :
              key(x_data[i]) = key(y_data[j]) =>
                  \E k \in 1..Len(df.rows) :
                      /\ key(df.rows[k]) = key(x_data[i])
                      /\ df.rows[k].x = x_data[i].value
                      /\ df.rows[k].y = y_data[j].value
        /\ \A k \in 1..Len(df.rows) :
              \E i \in 1..Len(x_data), j \in 1..Len(y_data) :
                  /\ key(x_data[i]) = key(df.rows[k])
                  /\ key(y_data[j]) = key(df.rows[k])
                  /\ df.rows[k].x = x_data[i].value
                  /\ df.rows[k].y = y_data[j].value
        /\ (x_data = x_example /\ y_data = y_example) =>
              df.rows = << [country |-> "Argentina", country_code |-> "ARG",
                            year |-> 2020, x |-> 5, y |-> 10, c |-> <<>>] >>

\* the example of the claim: Brazil is in x only and is dropped
C2_Witness ==
    /\ BasePanelBuilt
    /\ x_data = x_example
    /\ y_data = y_example
    /\ Len(df.rows) = 1

\* C3: after the x, y and control merges the panel has at most one row per
\* (country, year) key.
C3_OneRowPerKey ==
    rpc = "merged" =>
        \A i, j \in 1..Len(df.rows) : i # j => key(df.rows[i]) # key(df.rows[j])

\* the planned controls fetched so far whose series was not empty, in order
RECURSIVE nonempty_controls(_, _)
nonempty_controls(cv, sizes) ==
    IF Len(sizes) = 0 THEN <<>>
    ELSE (IF Head(sizes) > 0 THEN <<Head(cv)>> ELSE <<>>)
         \o nonempty_controls(Tail(cv), Tail(sizes))

\* C4: controls_fetched is exactly the planned controls whose fetch was
\* non-empty, in plan order, and the panel has one control column per
\* entry of controls_fetched: an empty control adds no column.
C4_ControlsFetched ==
    rpc \in {"controls", "in_control", "merged"} =>
        /\ controls_fetched = nonempty_controls(plan.control_vars, ctrl_sizes)
        /\ df.cols = [i \in 1..Len(controls_fetched) |->
                          control_column(controls_fetched[i].code)]
        /\ \A k \in 1..Len(df.rows) : Len(df.rows[k].c) = Len(df.cols)

\* the first planned control came back empty, the second did not
C4_Witness ==
    /\ rpc = "merged"
    /\ ctrl_sizes[1] = 0
    /\ ctrl_sizes[2] > 0
    /\ Len(controls_fetched) = 1

C5_State ==
    /\ tries <= MAX_ATTEMPTS
    /\ (fpc = "request" /\ last_req.kind = "ok") =>
            (page = last_req.page + 1 /\ tries = 0)
    /\ (last_req.kind = "fail" /\ tries = MAX_ATTEMPTS) => fpc = "ret"

C5_Step ==
    /\ (last_req'.kind = "fail" /\ tries' = tries + 1) =>
            (all_data' = all_data /\ page' = page)
    /\ fpc = "ret" => (fpc' = "ret" /\ tries' = tries /\ all_data' = all_data)

\* C5: a page gets at most 3 request attempts and none after a successful
\* one; a failed attempt leaves the accumulated observations as they are,
\* and after the third failure fetch requests nothing more and returns
\* them.
C5_BoundedRetry == []C5_State /\ [][C5_Step]_vars

\* page 1 delivered observations, page 2 failed three times, fetch returned
C5_Witness ==
    /\ fpc = "ret"
    /\ last_req.kind = "fail"
    /\ last_req.page = 2
    /\ tries = MAX_ATTEMPTS
    /\ Len(all_data) > 0

C6_State ==
    /\ last_req.kind = "none" => (page = 1 /\ fpc = "request")
    /\ last_req.kind = "ok" =>
            /\ (fpc = "ret") <=> (last_req.empty \/ last_req.page >= last_req.pages)
            /\ fpc = "request" => page = last_req.page + 1
    /\ last_req.kind = "fail" =>
            /\ (fpc = "ret") <=> (tries = MAX_ATTEMPTS)
            /\ page = last_req.page

C6_Step ==
    /\ last_req' # last_req => last_req'.page = page
    /\ page' = page \/ (page' = page + 1 /\ last_req'.kind = "ok")

\* C6: pages are requested in the order 1, 2, 3, ...; the loop stops
\* exactly when the page just fetched is empty, its number has reached the
\* page count the provider reported, or the page failed all its attempts;
\* the loop terminates.
C6_Paging == []C6_State /\ [][C6_Step]_vars /\ <>(fpc = "ret")

\* the third page was the last one the provider reported
C6_Witness ==
    /\ fpc = "ret"
    /\ last_req.kind = "ok"
    /\ ~last_req.empty
    /\ last_req.page = 3
    /\ last_req.pages = 3

\* the base panel is built and every control join so far left a cell
C25_State ==
    rpc \in {"controls", "in_control", "merged"} =>
        LET base == merge_inner(x_data, y_data)
        IN /\ \A i \in 1..Len(base) :
                 \E k \in 1..Len(df.rows) :
                    /\ key(df.rows[k]) = key(base[i])
                    /\ df.rows[k].x = base[i].x
                    /\ df.rows[k].y = base[i].y
           /\ \A k \in 1..Len(df.rows) : Len(df.rows[k].c) = Len(controls_fetched)

\* the step that joins the fetched control series all_data
C25_Step ==
    (rpc = "in_control" /\ rpc' = "controls" /\ Len(all_data) # 0) =>
        /\ \A i \in 1..Len(df.rows) :
              \E k \in 1..Len(df'.rows) :
                 /\ key(df'.rows[k]) = key(df.rows[i])
                 /\ df'.rows[k].x = df.rows[i].x
                 /\ df'.rows[k].y = df.rows[i].y
                 /\ SubSeq(df'.rows[k].c, 1, Len(df.rows[i].c)) = df.rows[i].c
        /\ \A k \in 1..Len(df'.rows) :
              LET cell == df'.rows[k].c[Len(df'.rows[k].c)]
              IN (cell = None) <=>
                    ~\E j \in 1..Len(all_data) : key(all_data[j]) = key(df'.rows[k])

\* C25: joining a control series removes no row of the base panel: every
\* (country, year) row of the x-y inner join is in the panel after every
\* control join, with an empty cell exactly where the control has no
\* observation of that key.
C25_LeftJoin == []C25_State /\ [][C25_Step]_vars

\* a control without an observation for the key of a base row was joined
\* and the row is there with an empty cell
C25_Witness ==
    /\ rpc = "merged"
    /\ Len(controls_fetched) >= 1
    /\ Len(df.rows) >= 1
    /\ \E k \in 1..Len(df.rows) :
          df.rows[k].c[Len(df.rows[k].c)] = None

(***************************************************************************)
(* Tautology guard, indicator validation and ai_parse_hypothesis           *)
(***************************************************************************)
\* keys of INDICATOR_FAMILIES (lines 51-57)
INDICATOR_FAMILIES == {
    <<"N","Y",".","G","D","P">>,
    <<"S","E",".","X","P","D">>,
    <<"S","H",".","X","P","D">>,
    <<"S","P",".","D","Y","N">>,
    <<"S","I",".","P","O","V">> }

\* check_tautology without the comparison of the first two segments
check_tautology_families_only(x_code, y_code) ==
    \/ x_code = y_code
    \/ \E prefix \in INDICATOR_FAMILIES :
            startswith(x_code, prefix) /\ startswith(y_code, prefix)

\* lines 296-310
check_tautology(x_code, y_code) ==
    \/ x_code = y_code
    \/ \E prefix \in INDICATOR_FAMILIES :
            startswith(x_code, prefix) /\ startswith(y_code, prefix)
    \/ LET x_parts == split(x_code)
           y_parts == split(y_code)
       IN /\ Len(x_parts) >= 2
          /\ Len(y_parts) >= 2
          /\ x_parts[1] = y_parts[1]
          /\ x_parts[2] = y_parts[2]

\* the hypothesis texts given to ai_parse_hypothesis
h_health == <<"H","e","a","l","t","h"," ","s","p","e","n","d","i","n","g"," ","a","n","d"," ","l","i","f","e"," ","e","x","p","e","c","t","a","n","c","y">>
h_education == <<"E","d","u","c","a","t","i","o","n"," ","s","p","e","n","d","i","n","g"," ","r","a","i","s","e","s"," ","G","D","P">>
h_internet == <<"I","n","t","e","r","n","e","t"," ","u","s","e"," ","a","n","d"," ","i","n","c","o","m","e">>
h_trade == <<"T","r","a","d","e"," ","o","p","e","n","n","e","s","s"," ","l","o","w","e","r","s"," ","i","n","f","l","a","t","i","o","n">>
h_both == <<"I","n","t","e","r","n","e","t"," ","e","d","u","c","a","t","i","o","n"," ","h","e","a","l","t","h"," ","g","r","o","w","t","h"," ","l","i","f","e">>

h_web_school == <<"I","n","t","e","r","n","e","t"," ","e","d","u","c","a","t","i","o","n"," ","g","r","o","w","t","h">>

Hypotheses == {h_health, h_education, h_internet, h_trade, h_both, h_web_school}

kw_health == <<"h","e","a","l","t","h">>
kw_life_expectancy == <<"l","i","f","e"," ","e","x","p","e","c","t","a","n","c","y">>
kw_mortality == <<"m","o","r","t","a","l","i","t","y">>
kw_life == <<"l","i","f","e">>
kw_education == <<"e","d","u","c","a","t","i","o","n">>
kw_gdp == <<"g","d","p">>
kw_growth == <<"g","r","o","w","t","h">>
kw_income == <<"i","n","c","o","m","e">>
kw_internet == <<"i","n","t","e","r","n","e","t">>

\* plan.get(k, default)
plan_get(p, k, default) == IF k \in DOMAIN p THEN p[k] ELSE default

\* p with p[k] = v, the key added when absent
plan_set(p, k, v) == [f \in DOMAIN p \cup {k} |-> IF f = k THEN v ELSE p[f]]

\* the keyword rules with the internet rule tried before the education rule
correct_tautology_internet_first(p, text) ==
    LET h == lower(text)
        economy == contains(h, kw_gdp) \/ contains(h, kw_growth) \/ contains(h, kw_income)
    IN IF contains(h, kw_health)
          /\ (contains(h, kw_life_expectancy) \/ contains(h, kw_mortality)
              \/ contains(h, kw_life))
       THEN [p EXCEPT !.independent_var = c_SH_XPD_CHEX_GD_ZS,
                      !.dependent_var = c_SP_DYN_LE00_IN,
                      !.x_label = "Current health expenditure (% of GDP)",
                      !.y_label = "Life expectancy at birth (years)"]
       ELSE IF contains(h, kw_internet) /\ economy
       THEN [p EXCEPT !.independent_var = c_IT_NET_USER_ZS,
                      !.dependent_var = c_NY_GDP_PCAP_PP_KD,
                      !.x_label = "Individuals using the Internet (% of population)",
                      !.y_label = "GDP per capita (PPP, constant 2017 $)"]
       ELSE IF contains(h, kw_education) /\ economy
       THEN [p EXCEPT !.independent_var = c_SE_XPD_TOTL_GD_ZS,
                      !.dependent_var = c_NY_GDP_PCAP_PP_KD,
                      !.x_label = "Government expenditure on education (% of GDP)",
                      !.y_label = "GDP per capita (PPP, constant 2017 $)"]
       ELSE p

\* lines 487-502: the keyword rules, tried in the order health, education,
\* internet; no rule matching leaves the plan as it is
correct_tautology(p, text) ==
    LET h == lower(text)
        economy == contains(h, kw_gdp) \/ contains(h, kw_growth) \/ contains(h, kw_income)
    IN IF contains(h, kw_health)
          /\ (contains(h, kw_life_expectancy) \/ contains(h, kw_mortality)
              \/ contains(h, kw_life))
       THEN [p EXCEPT !.independent_var = c_SH_XPD_CHEX_GD_ZS,
                      !.dependent_var = c_SP_DYN_LE00_IN,
                      !.x_label = "Current health expenditure (% of GDP)",
                      !.y_label = "Life expectancy at birth (years)"]
       ELSE IF contains(h, kw_education) /\ economy
       THEN [p EXCEPT !.independent_var = c_SE_XPD_TOTL_GD_ZS,
                      !.dependent_var = c_NY_GDP_PCAP_PP_KD,
                      !.x_label = "Government expenditure on education (% of GDP)",
                      !.y_label = "GDP per capita (PPP, constant 2017 $)"]
       ELSE IF contains(h, kw_internet) /\ economy
       THEN [p EXCEPT !.independent_var = c_IT_NET_USER_ZS,
                      !.dependent_var = c_NY_GDP_PCAP_PP_KD,
                      !.x_label = "Individuals using the Internet (% of population)",
                      !.y_label = "GDP per capita (PPP, constant 2017 $)"]
       ELSE p

\* {c["code"] for c in cv}
codes_of(cv) == {cv[i].code : i \in 1..Len(cv)}

\* lines 514-518: the loop over default_controls from index i on, cv being
\* plan["control_vars"] so far (has: the key exists); the result is the
\* pair <<key exists, control_vars>>
RECURSIVE append_defaults(_, _, _, _, _)
append_defaults(cv, has, i, existing_codes, p) ==
    IF i > Len(default_controls) THEN <<has, cv>>
    ELSE LET dc == default_controls[i]
         IN IF /\ dc.code \notin existing_codes
               /\ dc.code # p.independent_var
               /\ dc.code # p.dependent_var
            THEN IF Len(cv) + 1 >= 3
                 THEN <<TRUE, Append(cv, dc)>>
                 ELSE append_defaults(Append(cv, dc), TRUE, i + 1, existing_codes, p)
            ELSE append_defaults(cv, has, i + 1, existing_codes, p)

\* lines 506-518
default_control_vars(p) ==
    IF Len(plan_get(p, "control_vars", <<>>)) < 2
    THEN LET r == append_defaults(plan_get(p, "control_vars", <<>>),
                                  "control_vars" \in DOMAIN p, 1,
                                  codes_of(plan_get(p, "control_vars", <<>>)), p)
         IN IF r[1] THEN plan_set(p, "control_vars", r[2]) ELSE p
    ELSE p

\* line 401: the density floor
SPARSE_THRESHOLD == 200

\* a request that ended in a timeout, a refused connection or an HTTP error
TransportFailure == [error |-> "transport"]

\* a call the iteration did not make
NotCalled == [called |-> FALSE]

\* what the provider answers to the request of line 319: a failure, a body
\* without an indicator entry, or a body with one
IndicatorResponses == {TransportFailure, [found |-> FALSE], [found |-> TRUE]}

\* lines 316-334: the info dict, or None for a failure or a missing entry
validate_indicator(resp) ==
    IF "error" \in DOMAIN resp
    THEN None
    ELSE IF resp.found THEN Some("info") ELSE None

\* totals the provider may report
CoverageCounts == {0, 199, 200, 250}

\* what the provider answers to the request of line 340
CountResponses == {TransportFailure} \cup {[total |-> n] : n \in CoverageCounts}

\* lines 337-351: the reported total, or 0 for a failure
check_data_availability(resp) ==
    IF "error" \in DOMAIN resp THEN 0 ELSE resp.total

\* answers of the text-generation service to a replacement request:
\* {"code", "name"}, possibly without one of the keys
Alternatives ==
    {[code |-> c, name |-> "Suggested indicator"] :
        c \in {c_SP_DYN_LE00_IN, c_NY_GDP_PCAP_PP_KD}}
    \cup {[name |-> "Suggested indicator"], [code |-> c_SP_DYN_LE00_IN]}

\* get_claude_client raised for want of the key (lines 63-67)
ConfigurationError == [error |-> "configuration"]

\* line 66: the message of the ValueError
msg_no_key == <<"A","N","T","H","R","O","P","I","C","_","A","P","I","_","K","E","Y"," ","n","o","t"," ","s","e","t",".">>

\* the message of the client library's connection error
msg_connection == <<"C","o","n","n","e","c","t","i","o","n"," ","e","r","r","o","r",".">>

\* str(e) of the exception an outcome of ask_claude_json stands for
exception_message(out) ==
    IF out = ConfigurationError THEN msg_no_key ELSE msg_connection

\* a client that does not look for the key
ask_claude_json_unchecked(answers) == answers \cup {TransportFailure}

\* outcomes of ask_claude_json (lines 63-92) when the service would answer
\* with one of answers: without the key get_claude_client raises before
\* anything is sent; with it the answer arrives or the request fails, and
\* ask_claude lets either exception through
ask_claude_json(answers) ==
    IF credential THEN answers \cup {TransportFailure} ELSE {ConfigurationError}

\* the replacement rule with its comparison weakened to >=
fix_indicator_not_strict(p, var_key, label_key, exists, count, alt, new_count) ==
    LET code == p[var_key]
    IN IF ~exists \/ (count < SPARSE_THRESHOLD /\ new_count >= count)
       THEN [p EXCEPT ![var_key] = plan_get(alt, "code", code),
                      ![label_key] = plan_get(alt, "name", p[label_key])]
       ELSE p

\* lines 385-422 for one (var_key, label_key): exists is whether
\* validate_indicator returned an info dict, count and new_count are the
\* totals check_data_availability returned, alt the suggested replacement
fix_indicator(p, var_key, label_key, exists, count, alt, new_count) ==
    LET code == p[var_key]
    IN IF ~exists
       THEN [p EXCEPT ![var_key] = plan_get(alt, "code", code),
                      ![label_key] = plan_get(alt, "name", p[label_key])]
       ELSE IF count < SPARSE_THRESHOLD
       THEN IF new_count > count
            THEN [p EXCEPT ![var_key] = plan_get(alt, "code", code),
                           ![label_key] = plan_get(alt, "name", p[label_key])]
            ELSE p
       ELSE p

\* the entry of vlog for one iteration: the code and label it started from
\* and every answer it received
validation_entry(var_key, label_key, info_resp, count_resp, alt, new_resp) ==
    [var_key |-> var_key, label_key |-> label_key,
     code |-> plan[var_key], label |-> plan[label_key],
     info_resp |-> info_resp, count_resp |-> count_resp,
     alt |-> alt, new_resp |-> new_resp]

\* one iteration of the loop of line 384 with the answers it receives, next
\* being the position after it.  The indicator is unknown (line 388) and the
\* service is asked; or it exists and is dense (line 421); or it exists, is
\* sparse, the service is asked and the suggestion is measured (line 414).
\* An exception of ask_claude_json is not caught and leaves the function.
validate_var(var_key, label_key, next, keep_log) ==
    \/ \E info_resp \in IndicatorResponses, alt \in ask_claude_json(Alternatives) :
         /\ validate_indicator(info_resp) = None
         /\ IF "error" \in DOMAIN alt
            THEN plan' = plan /\ ppc' = "raised" /\ error' = exception_message(alt)
            ELSE /\ plan' = fix_indicator(plan, var_key, label_key, FALSE, 0, alt, 0)
                 /\ ppc' = next
                 /\ UNCHANGED error
         /\ IF keep_log
            THEN /\ vlog' = <<validation_entry(var_key, label_key, info_resp,
                                               NotCalled, alt, NotCalled)>>
                 /\ asks' = asks + 1
                 /\ lookups' = lookups + 1
            ELSE UNCHANGED <<vlog, asks, lookups>>
    \/ \E info_resp \in IndicatorResponses, count_resp \in CountResponses :
         /\ validate_indicator(info_resp) # None
         /\ check_data_availability(count_resp) >= SPARSE_THRESHOLD
         /\ plan' = fix_indicator(plan, var_key, label_key, TRUE,
                                  check_data_availability(count_resp), NotCalled, 0)
         /\ ppc' = next
         /\ UNCHANGED error
         /\ IF keep_log
            THEN /\ vlog' = <<validation_entry(var_key, label_key, info_resp,
                                               count_resp, NotCalled, NotCalled)>>
                 /\ lookups' = lookups + 2
                 /\ UNCHANGED asks
            ELSE UNCHANGED <<vlog, asks, lookups>>
    \/ \E info_resp \in IndicatorResponses, count_resp \in CountResponses,
          alt \in ask_claude_json(Alternatives), new_resp \in CountResponses :
         /\ validate_indicator(info_resp) # None
         /\ check_data_availability(count_resp) < SPARSE_THRESHOLD
         /\ IF "error" \in DOMAIN alt
            THEN plan' = plan /\ ppc' = "raised" /\ error' = exception_message(alt)
            ELSE /\ plan' = fix_indicator(plan, var_key, label_key, TRUE,
                                          check_data_availability(count_resp), alt,
                                          check_data_availability(new_resp))
                 /\ ppc' = next
                 /\ UNCHANGED error
         /\ IF keep_log
            THEN /\ vlog' = <<validation_entry(var_key, label_key, info_resp, count_resp,
                                               alt, IF "error" \in DOMAIN alt
                                                    THEN NotCalled ELSE new_resp)>>
                 /\ asks' = asks + 1
                 /\ lookups' = lookups + (IF "error" \in DOMAIN alt THEN 2 ELSE 3)
            ELSE UNCHANGED <<vlog, asks, lookups>>

\* codes the text-generation service picks for X and for Y
PlannerX == {c_SE_XPD_TOTL_GD_ZS, c_SH_XPD_CHEX_GD_ZS, c_NY_GDP_PCAP_PP_KD,
             c_SL_UEM_TOTL_ZS, c_SP_DYNX_A, c_GE_EST}
PlannerY == {c_SP_DYN_LE00_IN, c_NY_GDP_MKTP_KD_ZG, c_SL_UEM_ADVN_ZS,
             c_SE_SEC_ENRR, c_GE_EST}

\* controls the text-generation service proposes
PlannerControls ==
    { [code |-> c_NY_GDP_PCAP_PP_KD, label |-> "GDP per capita"],
      [code |-> c_SE_SEC_ENRR, label |-> "School enrollment"],
      [code |-> c_IT_NET_USER_ZS, label |-> "Internet users"] }

\* line 433: the plans ask_claude_json may return, with a control list of
\* 0..MaxPlanControls entries or without the control_vars key
PlannerAnswers ==
    LET core == {[independent_var |-> x, dependent_var |-> y,
                  x_label |-> "X label", y_label |-> "Y label"] :
                    x \in PlannerX, y \in PlannerY}
    IN core \cup {plan_set(p, "control_vars", cv) :
                    p \in core, cv \in BSeq(PlannerControls, MaxPlanControls)}

\* lines 433-481: plan = ask_claude_json(...), the service answering with
\* one of answers; an exception of the call leaves ai_parse_hypothesis
plan_ask(answers) ==
    /\ ppc = "ask"
    /\ \E out \in ask_claude_json(answers) :
         IF "error" \in DOMAIN out
         THEN /\ ppc' = "raised"
              /\ error' = exception_message(out)
              /\ UNCHANGED <<plan, answer>>
         ELSE /\ plan' = out
              /\ answer' = <<out.independent_var, out.dependent_var>>
              /\ ppc' = "parsed"
              /\ UNCHANGED error
    /\ asks' = asks + 1
    /\ UNCHANGED <<hypothesis, taut, vlog>>
    /\ UNCHANGED runVars
    /\ UNCHANGED fetchVars
    /\ UNCHANGED tailVars
    /\ UNCHANGED <<stages, lookups>>
    /\ UNCHANGED restVars

\* lines 483-504: the tautology check and, when it fires, the correction
plan_tautology_guard ==
    /\ ppc = "parsed"
    /\ taut' = check_tautology(plan.independent_var, plan.dependent_var)
    /\ plan' = IF taut' THEN correct_tautology(plan, hypothesis) ELSE plan
    /\ ppc' = "controls"
    /\ UNCHANGED <<hypothesis, answer, vlog>>
    /\ UNCHANGED runVars
    /\ UNCHANGED fetchVars
    /\ UNCHANGED tailVars
    /\ UNCHANGED <<error, stages, asks, lookups>>
    /\ UNCHANGED restVars

\* lines 506-518: the control variable check
plan_default_controls ==
    /\ ppc = "controls"
    /\ plan' = default_control_vars(plan)
    /\ ppc' = "validate_x"
    /\ UNCHANGED <<hypothesis, taut, answer, vlog>>
    /\ UNCHANGED runVars
    /\ UNCHANGED fetchVars
    /\ UNCHANGED tailVars
    /\ UNCHANGED <<error, stages, asks, lookups>>
    /\ UNCHANGED restVars

\* lines 384-422, first iteration: independent_var / x_label
plan_validate_x(keep_log) ==
    /\ ppc = "validate_x"
    /\ validate_var("independent_var", "x_label", "validate_y", keep_log)
    /\ UNCHANGED <<hypothesis, taut, answer>>
    /\ UNCHANGED runVars
    /\ UNCHANGED fetchVars
    /\ UNCHANGED tailVars
    /\ UNCHANGED stages
    /\ UNCHANGED restVars

\* lines 384-424, second iteration: dependent_var / y_label, then the
\* plan is returned (line 529)
plan_validate_y(keep_log) ==
    /\ ppc = "validate_y"
    /\ validate_var("dependent_var", "y_label", "returned", keep_log)
    /\ UNCHANGED <<hypothesis, taut, answer>>
    /\ UNCHANGED runVars
    /\ UNCHANGED fetchVars
    /\ UNCHANGED tailVars
    /\ UNCHANGED stages
    /\ UNCHANGED restVars

\* SpecPlan: ai_parse_hypothesis after ask_claude_json returned the plan
\* (line 481).
InitPlan ==
    /\ hypothesis \in Hypotheses
    /\ plan \in PlannerAnswers
    /\ answer = <<plan.independent_var, plan.dependent_var>>
    /\ ppc = "parsed"
    /\ taut = FALSE
    /\ vlog = <<>>
    /\ RunIdle
    /\ TailIdle
    /\ fetch_idle
    /\ RestIdle

NextPlan ==
    \/ plan_tautology_guard
    \/ plan_default_controls
    \/ plan_validate_x(FALSE)
    \/ plan_validate_y(FALSE)

SpecPlan == InitPlan /\ [][NextPlan]_vars

(***************************************************************************)
(* Properties of the plan returned by ai_parse_hypothesis                  *)
(***************************************************************************)
\* C7: in a returned plan independent_var and dependent_var are not
\* same-family: check_tautology of the two is false.
C7_NoTautologyReturned ==
    ppc = "returned" => ~check_tautology(plan.independent_var, plan.dependent_var)

\* C8: a returned plan has at least 2 control_vars.
C8_AtLeastTwoControls ==
    ppc = "returned" => Len(plan_get(plan, "control_vars", <<>>)) >= 2

\* C9: no control of a returned plan has the code of the plan's
\* independent_var or dependent_var.
C9_ControlsExcludeXY ==
    ppc = "returned" =>
        \A i \in 1..Len(plan_get(plan, "control_vars", <<>>)) :
            plan.control_vars[i].code \notin {plan.independent_var, plan.dependent_var}

\* the position of the n-th dot of s, or Len(s) + 1 when s has fewer dots
nth_dot(s, n) ==
    LET dots == {i \in 1..Len(s) : s[i] = "."}
        upto(i) == Cardinality({j \in dots : j <= i})
    IN IF Cardinality(dots) >= n
       THEN CHOOSE i \in dots : upto(i) = n
       ELSE Len(s) + 1

\* a and b have two or more dot-delimited segments and agree on the first two
SameFirstTwoSegments(a, b) ==
    /\ \E i \in 1..Len(a) : a[i] = "."
    /\ \E i \in 1..Len(b) : b[i] = "."
    /\ SubSeq(a, 1, nth_dot(a, 2) - 1) = SubSeq(b, 1, nth_dot(b, 2) - 1)

\* C10: check_tautology is true for every pair of codes that share their
\* first two dot-delimited segments; it is false for SE.XPD.TOTL.GD.ZS vs
\* SP.DYN.LE00.IN and for SH.XPD.CHEX.GD.ZS vs SP.DYN.LE00.IN, and a planner
\* answer with such a pair passes the guard with its pair and labels
\* untouched.
C10_TautologyGuard ==
    ppc # "parsed" =>
        /\ SameFirstTwoSegments(answer[1], answer[2]) => taut
        /\ (answer \in {<<c_SE_XPD_TOTL_GD_ZS, c_SP_DYN_LE00_IN>>,
                        <<c_SH_XPD_CHEX_GD_ZS, c_SP_DYN_LE00_IN>>}) =>
              /\ ~taut
              /\ ppc = "controls" =>
                    /\ plan.independent_var = answer[1]
                    /\ plan.dependent_var = answer[2]
                    /\ plan.x_label = "X label"
                    /\ plan.y_label = "Y label"

\* the guard has fired on a pair outside the family table that shares two
\* segments (SL.UEM.TOTL.ZS, SL.UEM.ADVN.ZS)
C10_Witness ==
    /\ ppc = "controls"
    /\ answer = <<c_SL_UEM_TOTL_ZS, c_SL_UEM_ADVN_ZS>>
    /\ taut

\* the first keyword rule each hypothesis text of the model satisfies, read
\* off the texts: health for the two that speak of health and life,
\* education for the two that speak of education and GDP or growth
first_rule ==
    IF hypothesis \in {h_health, h_both} THEN "health"
    ELSE IF hypothesis \in {h_education, h_web_school} THEN "education"
    ELSE IF hypothesis = h_internet THEN "internet"
    ELSE "none"

\* code pair and labels of the plan
plan_pair == <<plan.independent_var, plan.dependent_var, plan.x_label, plan.y_label>>

\* C27: on a detected tautology the pair and labels become those of the
\* first matching keyword rule in the order health, education, internet,
\* and that pair is no tautology; with no matching rule the tautological
\* pair stays; without a tautology the step changes neither variable.
C27_Fallback ==
    ppc = "controls" =>
        /\ ~taut => plan_pair = <<answer[1], answer[2], "X label", "Y label">>
        /\ (taut /\ first_rule = "none") =>
              plan_pair = <<answer[1], answer[2], "X label", "Y label">>
        /\ (taut /\ first_rule = "health") =>
              plan_pair = <<c_SH_XPD_CHEX_GD_ZS, c_SP_DYN_LE00_IN,
                            "Current health expenditure (% of GDP)",
                            "Life expectancy at birth (years)">>
        /\ (taut /\ first_rule = "education") =>
              plan_pair = <<c_SE_XPD_TOTL_GD_ZS, c_NY_GDP_PCAP_PP_KD,
                            "Government expenditure on education (% of GDP)",
                            "GDP per capita (PPP, constant 2017 $)">>
        /\ (taut /\ first_rule = "internet") =>
              plan_pair = <<c_IT_NET_USER_ZS, c_NY_GDP_PCAP_PP_KD,
                            "Individuals using the Internet (% of population)",
                            "GDP per capita (PPP, constant 2017 $)">>
        /\ (taut /\ first_rule # "none") =>
              ~check_tautology(plan.independent_var, plan.dependent_var)

\* a tautological answer for a text that satisfies the education and the
\* internet rule was replaced by the education pair
C27_Witness ==
    /\ ppc = "controls"
    /\ taut
    /\ hypothesis = h_web_school
    /\ answer = <<c_SL_UEM_TOTL_ZS, c_SL_UEM_ADVN_ZS>>
    /\ plan.independent_var = c_SE_XPD_TOTL_GD_ZS

(***************************************************************************)
(* validate_and_fix_indicators with its answers kept in vlog               *)
(***************************************************************************)
\* the plans that reach line 521: planner answers without a control list
\* that pass the guard of line 484, completed by lines 506-518
ValidatorPlans ==
    {default_control_vars(p) :
        p \in {q \in PlannerAnswers :
                 /\ "control_vars" \notin DOMAIN q
                 /\ ~check_tautology(q.independent_var, q.dependent_var)}}

\* SpecValidate: ai_parse_hypothesis at line 521, about to call
\* validate_and_fix_indicators.
InitValidate ==
    /\ hypothesis = h_trade
    /\ plan \in ValidatorPlans
    /\ answer = <<plan.independent_var, plan.dependent_var>>
    /\ ppc = "validate_x"
    /\ taut = FALSE
    /\ vlog = <<>>
    /\ RunIdle
    /\ TailIdle
    /\ fetch_idle
    /\ RestIdle

NextValidate ==
    \/ plan_validate_x(TRUE)
    \/ plan_validate_y(TRUE)

SpecValidate == InitValidate /\ [][NextValidate]_vars

\* the iteration of vlog ran to its end
validated == Len(vlog) = 1 /\ ppc \in {"validate_y", "returned"}

\* the iteration of vlog found no info dict for its code
entry_missing(e) == validate_indicator(e.info_resp) = None

\* the iteration of vlog measured its code below the floor and the
\* suggested alternative strictly above the code
entry_sparse_and_better(e) ==
    /\ validate_indicator(e.info_resp) # None
    /\ check_data_availability(e.count_resp) < SPARSE_THRESHOLD
    /\ e.new_resp # NotCalled
    /\ check_data_availability(e.new_resp) > check_data_availability(e.count_resp)

\* C11: an iteration of validate_and_fix_indicators changes the code only
\* when the code failed the existence check or when it is sparse (coverage
\* below 200) and the alternative's coverage is strictly greater; a missing
\* code takes the suggestion whatever its coverage; a code with coverage
\* >= 200, or whose alternative is not strictly better, keeps code and label.
C11_ReplacementRule ==
    validated =>
        LET e == vlog[1]
            code == plan[e.var_key]
            label == plan[e.label_key]
        IN /\ code # e.code => entry_missing(e) \/ entry_sparse_and_better(e)
           /\ entry_missing(e) =>
                 /\ code = plan_get(e.alt, "code", e.code)
                 /\ label = plan_get(e.alt, "name", e.label)
           /\ entry_sparse_and_better(e) =>
                 /\ code = plan_get(e.alt, "code", e.code)
                 /\ label = plan_get(e.alt, "name", e.label)
           /\ ~entry_missing(e) /\ ~entry_sparse_and_better(e) =>
                 /\ code = e.code
                 /\ label = e.label

\* a sparse dependent_var (199 observations) was switched to an alternative
\* with 200, and earlier runs kept a code whose alternative also had 199
C11_Witness ==
    /\ validated
    /\ vlog[1].var_key = "dependent_var"
    /\ vlog[1].count_resp = [total |-> 199]
    /\ vlog[1].new_resp = [total |-> 200]
    /\ plan.dependent_var # vlog[1].code

\* C12: no exception leaves validate_and_fix_indicators: a transport
\* failure of the provider counts as "no info" (None, 0) and a transport
\* failure of the text-generation service is tolerated as well.
C12_NoExceptionEscapes ==
    /\ ppc # "raised"
    /\ Len(vlog) = 1 =>
          /\ vlog[1].info_resp = TransportFailure =>
                validate_indicator(vlog[1].info_resp) = None
          /\ vlog[1].count_resp = TransportFailure =>
                check_data_availability(vlog[1].count_resp) = 0

(***************************************************************************)
(* apply_cleaning (lines 777-802)                                          *)
(*                                                                         *)
(* x and y are numbers.  DataFrame.quantile interpolates linearly between  *)
(* the two order statistics around position q * (n - 1); the frames below  *)
(* hold multiples of Unit, for which two rounds of that interpolation with *)
(* whole percentiles are exact in integer arithmetic.                      *)
(***************************************************************************)
Unit == 100 * 100

\* line 782: the percentile used when the review names none
DEFAULT_WINSORIZE_PERCENTILE == 1

\* line 792: the per-country floor used when the review names none
DEFAULT_MIN_OBSERVATIONS == 3

\* most rows of a frame given to apply_cleaning in SpecClean
MaxCleanRows == 6

\* the column col of the rows, as a sequence of numbers
column(rows, col) == [i \in 1..Len(rows) |-> rows[i][col]]

\* the k-th smallest of vals (k from 1)
order_stat(vals, k) ==
    CHOOSE v \in {vals[i] : i \in 1..Len(vals)} :
        /\ Cardinality({i \in 1..Len(vals) : vals[i] < v}) < k
        /\ Cardinality({i \in 1..Len(vals) : vals[i] <= v}) >= k

\* Series.quantile(p / 100) of a non-empty series, linear interpolation
quantile(vals, p) ==
    LET h == p * (Len(vals) - 1)
        lo == h \div 100
        r == h % 100
        a == order_stat(vals, lo + 1)
    IN IF r = 0 THEN a
       ELSE a + (r * (order_stat(vals, lo + 2) - a)) \div 100

\* Series.clip(lower, upper) on one value
clip(v, lo, hi) ==
    LET raised == IF v < lo THEN lo ELSE v
    IN IF raised > hi THEN hi ELSE raised

\* line 785 for one column; an empty series has NaN quantiles and stays
clip_column(rows, col, pct) ==
    IF Len(rows) = 0 THEN rows
    ELSE LET vals == column(rows, col)
             q_low == quantile(vals, pct)
             q_high == quantile(vals, 100 - pct)
         IN [i \in 1..Len(rows) |->
                [rows[i] EXCEPT ![col] = clip(rows[i][col], q_low, q_high)]]

\* lines 781-785
winsorize(rows, rv) ==
    IF plan_get(rv, "winsorize", FALSE)
    THEN LET pct == plan_get(rv, "winsorize_percentile", DEFAULT_WINSORIZE_PERCENTILE)
         IN clip_column(clip_column(rows, "x", pct), "y", pct)
    ELSE rows

\* lines 787-790
exclude_zeros(rows, rv) ==
    LET nonzero_x(r) == r.x # 0
        nonzero_y(r) == r.y # 0
        after_x == IF plan_get(rv, "exclude_zeros_x", FALSE)
                   THEN SelectSeq(rows, nonzero_x) ELSE rows
    IN IF plan_get(rv, "exclude_zeros_y", FALSE)
       THEN SelectSeq(after_x, nonzero_y) ELSE after_x

\* df.groupby("country").size() for one country
country_size(rows, c) == Cardinality({i \in 1..Len(rows) : rows[i].country = c})

\* lines 792-795 with the counts taken on the frame given to apply_cleaning
drop_small_countries_by_input(rows, rv, input_rows) ==
    LET min_obs == plan_get(rv, "min_observations_per_country", DEFAULT_MIN_OBSERVATIONS)
        enough(r) == country_size(input_rows, r.country) >= min_obs
    IN SelectSeq(rows, enough)

\* lines 792-795 with the floor one row too low
drop_small_countries_one_short(rows, rv, input_rows) ==
    LET min_obs == plan_get(rv, "min_observations_per_country", DEFAULT_MIN_OBSERVATIONS)
        enough(r) == country_size(rows, r.country) >= min_obs - 1
    IN SelectSeq(rows, enough)

\* lines 792-795
drop_small_countries(rows, rv, input_rows) ==
    LET min_obs == plan_get(rv, "min_observations_per_country", DEFAULT_MIN_OBSERVATIONS)
        enough(r) == country_size(rows, r.country) >= min_obs
    IN SelectSeq(rows, enough)

\* lines 797-799
RECURSIVE exclude_countries(_, _)
exclude_countries(rows, names) ==
    IF Len(names) = 0 THEN rows
    ELSE LET other(r) == r.country # Head(names)
         IN exclude_countries(SelectSeq(rows, other), Tail(names))

\* lines 777-802 on the rows of the frame; the columns stay
apply_cleaning(frame, rv) ==
    LET winsorized == winsorize(frame.rows, rv)
        nonzero == exclude_zeros(winsorized, rv)
        populated == drop_small_countries(nonzero, rv, frame.rows)
    IN [frame EXCEPT !.rows =
            exclude_countries(populated, plan_get(rv, "exclude_countries", <<>>))]

\* lines 781-785: df[col] = ... assigns into the frame object the caller
\* passed, so the caller's frame holds the clipped columns after the call;
\* the filters of lines 787-799 rebind the local name and leave it alone
argument_after(frame, rv) == [frame EXCEPT !.rows = winsorize(frame.rows, rv)]

\* the kinds of panel row SpecClean builds its frames from
CleanRowKinds ==
    << [country |-> "Argentina", country_code |-> "ARG", x |-> (0 - 2) * Unit, y |-> Unit],
       [country |-> "Argentina", country_code |-> "ARG", x |-> 0, y |-> Unit],
       [country |-> "Argentina", country_code |-> "ARG", x |-> 6 * Unit, y |-> Unit],
       [country |-> "Brazil", country_code |-> "BRA", x |-> 0, y |-> Unit],
       [country |-> "Brazil", country_code |-> "BRA", x |-> 4 * Unit, y |-> 0] >>

\* a panel row of kind k observed in the i-th year
clean_row(k, i) ==
    [country |-> CleanRowKinds[k].country, country_code |-> CleanRowKinds[k].country_code,
     year |-> 2000 + i, x |-> CleanRowKinds[k].x, y |-> CleanRowKinds[k].y, c |-> <<>>]

\* panels of at most MaxCleanRows rows, one per year, in the order of the kinds
CleanFrames ==
    {[cols |-> <<>>, rows |-> [i \in 1..Len(ks) |-> clean_row(ks[i], i)]] :
        ks \in {g \in BSeq(1..Len(CleanRowKinds), MaxCleanRows) :
                   \A i \in 1..Len(g) : \A j \in i..Len(g) : g[i] <= g[j]}}

\* the review dicts ai_review_data may return (line 755): every key optional
Reviews ==
    LET with(S, k, V) == S \cup {plan_set(rv, k, v) : rv \in S, v \in V}
        r1 == with({<<>>}, "winsorize", {TRUE})
        r2 == r1 \cup {plan_set([winsorize |-> TRUE], "winsorize_percentile", p) :
                          p \in {5, 25}}
        r3 == with(r2, "exclude_zeros_x", {TRUE})
        r4 == with(r3, "exclude_zeros_y", {TRUE})
        r5 == with(r4, "min_observations_per_country", {2, 3})
    IN with(r5, "exclude_countries", {<<"Brazil">>})

\* line 1527: df = apply_cleaning(df, review)
clean_call ==
    /\ cpc = "call"
    /\ df_in' = df
    /\ df' = apply_cleaning(df, review)
    /\ df_arg' = argument_after(df, review)
    /\ cpc' = "cleaned"
    /\ UNCHANGED df_prev
    /\ UNCHANGED <<appVars, jsonVars, litVars, endVars>>
    /\ stages' = Append(stages, "cleaning")
    /\ UNCHANGED <<review, results, error, fit_raised, credential, asks, lookups>>
    /\ UNCHANGED <<rpc, x_data, y_data, controls_fetched, ctrl_i, ctrl_sizes>>
    /\ UNCHANGED planVars
    /\ UNCHANGED fetchVars

\* apply_cleaning called again, on the frame it returned and with the same
\* review
clean_again ==
    /\ cpc = "cleaned"
    /\ df_in' = df
    /\ df' = apply_cleaning(df, review)
    /\ df_arg' = argument_after(df, review)
    /\ df_prev' = df
    /\ cpc' = "recleaned"
    /\ UNCHANGED <<appVars, jsonVars, litVars, endVars>>
    /\ UNCHANGED <<review, results, error, fit_raised, stages, credential, asks, lookups>>
    /\ UNCHANGED <<rpc, x_data, y_data, controls_fetched, ctrl_i, ctrl_sizes>>
    /\ UNCHANGED planVars
    /\ UNCHANGED fetchVars

\* apply_cleaning called again with the frame object of the first call and
\* the same review
clean_same_object ==
    /\ cpc = "cleaned"
    /\ df_in' = df_arg
    /\ df' = apply_cleaning(df_arg, review)
    /\ df_arg' = argument_after(df_arg, review)
    /\ df_prev' = df
    /\ cpc' = "repeated"
    /\ UNCHANGED <<review, results, error, fit_raised, stages, credential, asks, lookups>>
    /\ UNCHANGED <<rpc, x_data, y_data, controls_fetched, ctrl_i, ctrl_sizes>>
    /\ UNCHANGED planVars
    /\ UNCHANGED fetchVars
    /\ UNCHANGED <<appVars, jsonVars, litVars, endVars>>

\* SpecClean: apply_cleaning is about to be called on a merged panel.
InitClean ==
    /\ PlanIdle
    /\ plan = <<>>
    /\ rpc = "none"
    /\ x_data = <<>>
    /\ y_data = <<>>
    /\ df \in CleanFrames
    /\ controls_fetched = <<>>
    /\ ctrl_i = 0
    /\ ctrl_sizes = <<>>
    /\ fetch_idle
    /\ cpc = "call"
    /\ review \in Reviews
    /\ df_in = NoFrame
    /\ results = <<>>
    /\ error = <<>>
    /\ fit_raised = {}
    /\ stages = <<>>
    /\ credential = TRUE
    /\ asks = 0
    /\ lookups = 0
    /\ RestIdle

NextClean ==
    \/ clean_call
    \/ clean_again

SpecClean == InitClean /\ [][NextClean]_vars

(***************************************************************************)
(* Properties of apply_cleaning                                            *)
(***************************************************************************)
\* the set of countries a list names
named(names) == {names[i] : i \in 1..Len(names)}

\* the rows of w at the positions keep holds for, in their order
rows_at(w, keep(_)) ==
    LET idx == SelectSeq([i \in 1..Len(w) |-> i], keep)
    IN [k \in 1..Len(idx) |-> w[idx[k]]]

\* {winsorize at 5%, min_observations_per_country 3}
review_example ==
    [winsorize |-> TRUE, winsorize_percentile |-> 5, min_observations_per_country |-> 3]

\* apply_cleaning has returned
cleaning_returned == cpc \in {"cleaned", "recleaned"}

\* C13: apply_cleaning winsorizes x and y, then drops zero rows, then drops
\* the countries with fewer than min_observations_per_country rows, then
\* drops exclude_countries, and counts the rows of a country on the frame
\* left by the first two steps; with {winsorize 5%, min_observations 3} a
\* country with 4 rows keeps its 4 rows and one with 2 rows loses them.
C13_CleaningOrder ==
    cleaning_returned =>
        LET w == winsorize(df_in.rows, review)
            zero(i) == \/ plan_get(review, "exclude_zeros_x", FALSE) /\ w[i].x = 0
                       \/ plan_get(review, "exclude_zeros_y", FALSE) /\ w[i].y = 0
            left(c) == Cardinality({i \in 1..Len(w) : w[i].country = c /\ ~zero(i)})
            min_obs == plan_get(review, "min_observations_per_country", 3)
            survives(i) ==
                /\ ~zero(i)
                /\ left(w[i].country) >= min_obs
                /\ w[i].country \notin named(plan_get(review, "exclude_countries", <<>>))
        IN /\ df.rows = rows_at(w, survives)
           /\ review = review_example =>
                 \A c \in {"Argentina", "Brazil"} :
                    /\ country_size(df_in.rows, c) = 4 => country_size(df.rows, c) = 4
                    /\ country_size(df_in.rows, c) = 2 => country_size(df.rows, c) = 0

\* a country entered with min_observations_per_country rows or more, lost
\* rows to the zero filter and was dropped for the rows it had left
C13_Witness ==
    /\ cpc = "cleaned"
    /\ plan_get(review, "exclude_zeros_x", FALSE)
    /\ "exclude_countries" \notin DOMAIN review
    /\ country_size(df_in.rows, "Argentina") >=
          plan_get(review, "min_observations_per_country", 3)
    /\ \E i \in 1..Len(df_in.rows) :
          df_in.rows[i].country = "Argentina" /\ df_in.rows[i].x # 0
    /\ country_size(df.rows, "Argentina") = 0

\* C14: apply_cleaning given the frame it returned, with the same review,
\* removes no further row.
C14_Idempotent ==
    cpc = "recleaned" => Len(df.rows) = Len(df_in.rows)

\* the (country, year) keys of the rows, in their order
row_keys(rows) == [i \in 1..Len(rows) |-> <<rows[i].country, rows[i].year>>]

\* the review asks for nothing but winsorizing, and every country of the
\* given frame has the rows the per-country floor asks for
winsorizing_alone ==
    /\ plan_get(review, "winsorize", FALSE)
    /\ ~plan_get(review, "exclude_zeros_x", FALSE)
    /\ ~plan_get(review, "exclude_zeros_y", FALSE)
    /\ Len(plan_get(review, "exclude_countries", <<>>)) = 0
    /\ \A i \in 1..Len(df_in.rows) :
          country_size(df_in.rows, df_in.rows[i].country)
              >= plan_get(review, "min_observations_per_country", 3)

\* C29: in the frame apply_cleaning returns every remaining country has at
\* least min_observations_per_country rows (3 by default), no remaining
\* country is named in exclude_countries, every row key is a row key of the
\* frame given, and winsorizing alone removes no row.
C29_CleanedFrame ==
    cleaning_returned =>
        /\ \A i \in 1..Len(df.rows) :
              /\ country_size(df.rows, df.rows[i].country)
                    >= plan_get(review, "min_observations_per_country", 3)
              /\ df.rows[i].country \notin named(plan_get(review, "exclude_countries", <<>>))
              /\ \E j \in 1..Len(df_in.rows) :
                    row_keys(df_in.rows)[j] = row_keys(df.rows)[i]
        /\ winsorizing_alone => row_keys(df.rows) = row_keys(df_in.rows)

\* winsorizing alone changed values of a panel of two countries and kept
\* every row
C29_Witness ==
    /\ cpc = "cleaned"
    /\ winsorizing_alone
    /\ Cardinality({df_in.rows[i].country : i \in 1..Len(df_in.rows)}) = 2
    /\ df.rows # df_in.rows
    /\ Len(df.rows) = Len(df_in.rows)

\* SpecCleanTwice: the caller keeps the frame object and calls
\* apply_cleaning with it a second time.
InitCleanTwice ==
    /\ InitClean
    /\ "exclude_countries" \notin DOMAIN review

NextCleanTwice ==
    \/ clean_call
    \/ clean_same_object

SpecCleanTwice == InitCleanTwice /\ [][NextCleanTwice]_vars

\* C28: apply_cleaning leaves the frame object it was given as it was,
\* winsorize set or not, and a second call with the same object and the same
\* review returns the rows and values of the first.
C28_ArgumentUnchanged ==
    /\ cpc \in {"cleaned", "repeated"} => df_arg = df_in
    /\ cpc = "repeated" => df = df_prev

(***************************************************************************)
(* StatisticsEngine.run_all (lines 808-924) and its caller (1532-1536)     *)
(***************************************************************************)
\* float NaN in a numeric column, kept as a number no observation takes
NaN == 0 - 2^30

\* line 817: the smallest sample run_all accepts
MIN_OBSERVATIONS == 10

\* line 826: fixed effects need more distinct countries than this
FIXED_EFFECTS_COUNTRIES == 5

\* most countries and most years of a panel given to run_all in SpecStats
MaxStatCountries == 6
MaxStatYears == 3

msg_insufficient == <<"I","n","s","u","f","f","i","c","i","e","n","t"," ","d","a","t","a"," ","(","<"," ","1","0"," ","o","b","s","e","r","v","a","t","i","o","n","s",")">>
msg_analysis_failed == <<"A","n","a","l","y","s","i","s"," ","f","a","i","l","e","d",":"," ">>
msg_nan_int == <<"c","a","n","n","o","t"," ","c","o","n","v","e","r","t"," ","f","l","o","a","t"," ","N","a","N"," ","t","o"," ","i","n","t","e","g","e","r">>

\* df.columns of a panel
columns(frame) ==
    << <<"c","o","u","n","t","r","y">>,
       <<"c","o","u","n","t","r","y","_","c","o","d","e">>,
       <<"y","e","a","r">>, <<"x">>, <<"y">> >> \o frame.cols

\* line 822
control_cols(frame) ==
    LET is_control(c) == startswith(c, <<"c","o","n","t","r","o","l","_">>)
    IN SelectSeq(columns(frame), is_control)

\* lines 813-815: x and y are float columns, to_numeric leaves them as they
\* are and dropna removes the rows with a NaN in either
valid_rows(rows) ==
    LET complete(r) == r.x # NaN /\ r.y # NaN
    IN SelectSeq(rows, complete)

\* df["country"].nunique()
nunique_country(rows) == Cardinality({rows[i].country : i \in 1..Len(rows)})

\* df["year"].min(), which skips NaN and is NaN when nothing is left
year_min(rows) ==
    LET years == {rows[i].year : i \in 1..Len(rows)} \ {NaN}
    IN IF years = {} THEN NaN
       ELSE CHOOSE y \in years : \A z \in years : y <= z

\* the sample-size test applied before dropna
insufficient_before_dropna(frame) == Len(frame.rows) < MIN_OBSERVATIONS

\* line 817
insufficient(frame) == Len(valid_rows(frame.rows)) < MIN_OBSERVATIONS

\* the fixed-effects test with >= in place of >
wants_fixed_effects_from_five(rows) == nunique_country(rows) >= FIXED_EFFECTS_COUNTRIES

\* line 826
wants_fixed_effects(rows) == nunique_country(rows) > FIXED_EFFECTS_COUNTRIES

\* lines 820-829: the fits run_all calls on a sufficient panel
fits_run(frame) ==
    {"ols", "correlation"}
    \cup (IF Len(control_cols(frame)) > 0 THEN {"ols_controls"} ELSE {})
    \cup (IF wants_fixed_effects(valid_rows(frame.rows)) THEN {"fixed_effects"} ELSE {})

\* lines 842-924: _ols, _ols_controls, _fixed_effects and _correlation
\* return their record, or {"error": str(e)} when the library raised
fit_result(model, rows, lib_raised) ==
    IF model \in lib_raised
    THEN [error |-> "exception of the library"]
    ELSE [n_obs |-> Len(rows)]

\* lines 831-839, reached with a year to convert
descriptive(rows) ==
    [n_obs |-> Len(rows), n_countries |-> nunique_country(rows),
     year_min |-> year_min(rows)]

\* lines 809-840: the bundle run_all returns, or the exception that leaves
\* it; int() of a NaN year at line 834 is outside every try block
run_all(frame, lib_raised) ==
    LET rows == valid_rows(frame.rows)
    IN IF insufficient(frame)
       THEN [raised |-> FALSE, value |-> [error |-> msg_insufficient]]
       ELSE IF year_min(rows) = NaN
       THEN [raised |-> TRUE, message |-> msg_nan_int]
       ELSE [raised |-> FALSE,
             value |-> [k \in fits_run(frame) \cup {"descriptive"} |->
                          IF k = "descriptive" THEN descriptive(rows)
                          ELSE fit_result(k, rows, lib_raised)]]

\* lines 1533-1534: results = engine.run_all(df, plan), the library raising
\* in the fits of lib_raised
run_statistics ==
    /\ rpc = "statistics"
    /\ \E lib_raised \in SUBSET (IF insufficient(df) THEN {} ELSE fits_run(df)) :
         LET out == run_all(df, lib_raised)
         IN /\ fit_raised' = lib_raised
            /\ IF out.raised
               THEN /\ rpc' = "raised"
                    /\ error' = out.message
                    /\ UNCHANGED results
               ELSE /\ rpc' = "check_results"
                    /\ results' = out.value
                    /\ UNCHANGED error
    /\ stages' = Append(stages, "statistics")
    /\ UNCHANGED <<x_data, y_data, df, controls_fetched, ctrl_i, ctrl_sizes>>
    /\ UNCHANGED <<cpc, review, df_in, credential, asks, lookups>>
    /\ UNCHANGED planVars
    /\ UNCHANGED fetchVars
    /\ UNCHANGED restVars

\* lines 1535-1536
run_check_results ==
    /\ rpc = "check_results"
    /\ IF "error" \in DOMAIN results
       THEN /\ rpc' = "raised"
            /\ error' = msg_analysis_failed \o results.error
       ELSE /\ rpc' = "charts"
            /\ UNCHANGED error
    /\ UNCHANGED <<x_data, y_data, df, controls_fetched, ctrl_i, ctrl_sizes>>
    /\ UNCHANGED <<cpc, review, df_in, results, fit_raised, stages, credential, asks, lookups>>
    /\ UNCHANGED planVars
    /\ UNCHANGED fetchVars
    /\ UNCHANGED restVars

\* countries of the panels of SpecStats
StatCountries ==
    << <<"Argentina", "ARG">>, <<"Brazil", "BRA">>, <<"Chile", "CHL">>,
       <<"Denmark", "DNK">>, <<"Egypt", "EGY">>, <<"France", "FRA">>,
       <<"Ghana", "GHA">>, <<"Hungary", "HUN">> >>

\* the row of country i in its j-th year, with a control cell per column
stat_row(i, j, x, cells) ==
    [country |-> StatCountries[i][1], country_code |-> StatCountries[i][2],
     year |-> 2019 + j, x |-> x, y |-> (2 * i + j) * Unit, c |-> cells]

\* a balanced panel of k countries and n years; with_nan adds a row of one
\* more country whose x is NaN, with_control a control column, and without
\* with_years the year column holds NaN throughout
stat_frame(k, n, with_nan, with_control, with_years) ==
    LET cells == IF with_control THEN <<Some(1)>> ELSE <<>>
        full == [idx \in 1..(k * n) |->
                    stat_row(((idx - 1) \div n) + 1, ((idx - 1) % n) + 1,
                             idx * Unit, cells)]
        rows == IF with_nan THEN Append(full, stat_row(k + 1, 1, NaN, cells)) ELSE full
    IN [cols |-> IF with_control THEN <<control_column(c_NY_GDP_PCAP_PP_KD)>> ELSE <<>>,
        rows |-> [i \in 1..Len(rows) |->
                    IF with_years THEN rows[i] ELSE [rows[i] EXCEPT !.year = NaN]]]

StatFrames ==
    {stat_frame(k, n, with_nan, with_control, with_years) :
        k \in 0..MaxStatCountries, n \in 1..MaxStatYears,
        with_nan \in BOOLEAN, with_control \in BOOLEAN, with_years \in BOOLEAN}

\* SpecStats: run_empirica at line 1534, about to call run_all on a panel.
InitStats ==
    /\ PlanIdle
    /\ plan = <<>>
    /\ rpc = "statistics"
    /\ x_data = <<>>
    /\ y_data = <<>>
    /\ df \in StatFrames
    /\ controls_fetched = <<>>
    /\ ctrl_i = 0
    /\ ctrl_sizes = <<>>
    /\ fetch_idle
    /\ TailIdle
    /\ RestIdle

NextStats ==
    \/ run_statistics
    \/ run_check_results

SpecStats == InitStats /\ [][NextStats]_vars

(***************************************************************************)
(* Properties of run_all                                                   *)
(***************************************************************************)
\* the rows of df whose x and y are both numbers
valid_count == Cardinality({i \in 1..Len(df.rows) : df.rows[i].x # NaN /\ df.rows[i].y # NaN})

\* the countries of those rows
valid_countries ==
    {df.rows[i].country : i \in {j \in 1..Len(df.rows) :
                                    df.rows[j].x # NaN /\ df.rows[j].y # NaN}}

\* run_all has returned a bundle
bundle_returned == DOMAIN results # {}

\* C16: on a panel with fewer than 10 valid rows run_all returns a bundle
\* whose only key is "error", and run_empirica raises on that bundle.
C16_InsufficientData ==
    (valid_count < 10 /\ Len(stages) > 0) =>
        /\ DOMAIN results = {"error"}
        /\ rpc \in {"check_results", "raised"}
        /\ rpc = "raised" => error = msg_analysis_failed \o msg_insufficient

\* run_empirica raised on a panel of 10 rows of which 9 are valid
C16_Witness ==
    /\ rpc = "raised"
    /\ Len(df.rows) = 10
    /\ valid_count = 9
    /\ DOMAIN results = {"error"}

C18_FixedEffects ==
    (bundle_returned /\ "error" \notin DOMAIN results) =>
        (("fixed_effects" \in DOMAIN results) <=> (Cardinality(valid_countries) > 5))

\* a bundle without fixed effects for a panel of 6 countries of which 5 have
\* valid rows
C18_Witness ==
    /\ bundle_returned
    /\ "error" \notin DOMAIN results
    /\ nunique_country(df.rows) = 6
    /\ Cardinality(valid_countries) = 5
    /\ "fixed_effects" \notin DOMAIN results

(***************************************************************************)
(* Properties of the emptiness test of run_empirica (lines 1500-1501)      *)
(***************************************************************************)
\* c is a letter
is_letter(c) ==
    \E i \in 1..Len(UpperChars) : c = UpperChars[i] \/ c = LowerChars[i]

\* w occurs in text as a word of its own, in any case
has_word(text, w) ==
    LET t == lower(text)
    IN \E i \in 1..(Len(t) - Len(w) + 1) :
          /\ SubSeq(t, i, i + Len(w) - 1) = w
          /\ i = 1 \/ ~is_letter(t[i - 1])
          /\ i + Len(w) > Len(t) \/ ~is_letter(t[i + Len(w)])

\* the message names the series of the given role: by the role's letter, by
\* "independent" / "dependent", or by the indicator code
names_series(msg, letter, role, code) ==
    \/ has_word(msg, <<letter>>)
    \/ has_word(msg, role)
    \/ contains(lower(msg), lower(code))

\* the emptiness test of line 1500 has been passed or has raised
emptiness_tested == rpc \notin {"none", "call_x", "in_x", "call_y", "in_y", "merge"}

\* C19: when the fetched x or y series is empty run_empirica raises an
\* error whose message names the empty series, and no merge, control fetch,
\* literature search, review, cleaning or statistics stage runs.
C19_EmptySeriesError ==
    (emptiness_tested /\ (Len(x_data) = 0 \/ Len(y_data) = 0)) =>
        /\ rpc = "raised"
        /\ Len(x_data) = 0 =>
              names_series(error, "x", <<"i","n","d","e","p","e","n","d","e","n","t">>,
                           plan.independent_var)
        /\ Len(y_data) = 0 =>
              names_series(error, "y", <<"d","e","p","e","n","d","e","n","t">>,
                           plan.dependent_var)
        /\ stages = <<"fetch_x", "fetch_y">>
        /\ df = NoFrame
        /\ ctrl_sizes = <<>>
        /\ DOMAIN review = {}
        /\ DOMAIN results = {}

(***************************************************************************)
(* run_empirica from its entry to the return of ai_parse_hypothesis        *)
(***************************************************************************)
\* lines 1490-1493: ai_parse_hypothesis(hypothesis) is entered
run_call_parse ==
    /\ rpc = "start"
    /\ ppc = "none"
    /\ rpc' = "in_parse"
    /\ ppc' = "ask"
    /\ stages' = Append(stages, "ai_parse_hypothesis")
    /\ UNCHANGED <<hypothesis, plan, taut, answer, vlog>>
    /\ UNCHANGED <<x_data, y_data, df, controls_fetched, ctrl_i, ctrl_sizes>>
    /\ UNCHANGED fetchVars
    /\ UNCHANGED tailVars
    /\ UNCHANGED <<error, asks, lookups>>
    /\ UNCHANGED restVars

\* line 1493: plan = the dict ai_parse_hypothesis returned
run_return_parse ==
    /\ rpc = "in_parse"
    /\ ppc = "returned"
    /\ rpc' = "call_x"
    /\ UNCHANGED <<x_data, y_data, df, controls_fetched, ctrl_i, ctrl_sizes>>
    /\ UNCHANGED planVars
    /\ UNCHANGED fetchVars
    /\ UNCHANGED tailVars
    /\ UNCHANGED <<error, stages, asks, lookups>>
    /\ UNCHANGED restVars

\* line 1493 is in no try block: an exception of ai_parse_hypothesis
\* leaves run_empirica
run_raise_parse ==
    /\ rpc = "in_parse"
    /\ ppc = "raised"
    /\ rpc' = "raised"
    /\ UNCHANGED <<x_data, y_data, df, controls_fetched, ctrl_i, ctrl_sizes>>
    /\ UNCHANGED planVars
    /\ UNCHANGED fetchVars
    /\ UNCHANGED tailVars
    /\ UNCHANGED <<error, stages, asks, lookups>>
    /\ UNCHANGED restVars

\* the answers of the text-generation service in SpecParse
ParseAnswers ==
    {p \in PlannerAnswers :
        /\ "control_vars" \notin DOMAIN p
        /\ p.independent_var \in {c_SH_XPD_CHEX_GD_ZS, c_SL_UEM_TOTL_ZS}
        /\ p.dependent_var \in {c_SP_DYN_LE00_IN, c_SL_UEM_ADVN_ZS}}

\* SpecParse: run_empirica has been called, with or without the key in the
\* environment.
InitParse ==
    /\ hypothesis \in {h_health, h_trade}
    /\ plan = <<>>
    /\ ppc = "none"
    /\ taut = FALSE
    /\ answer = <<>>
    /\ vlog = <<>>
    /\ rpc = "start"
    /\ x_data = <<>>
    /\ y_data = <<>>
    /\ df = NoFrame
    /\ controls_fetched = <<>>
    /\ ctrl_i = 0
    /\ ctrl_sizes = <<>>
    /\ fetch_idle
    /\ cpc = "none"
    /\ review = <<>>
    /\ df_in = NoFrame
    /\ results = <<>>
    /\ error = <<>>
    /\ fit_raised = {}
    /\ stages = <<>>
    /\ credential \in BOOLEAN
    /\ asks = 0
    /\ lookups = 0
    /\ RestIdle

NextParse ==
    \/ run_call_parse
    \/ plan_ask(ParseAnswers)
    \/ plan_tautology_guard
    \/ plan_default_controls
    \/ plan_validate_x(TRUE)
    \/ plan_validate_y(TRUE)
    \/ run_return_parse
    \/ run_raise_parse

SpecParse == InitParse /\ [][NextParse]_vars

\* C20: without the credential run_empirica fails at its first
\* text-generation call, the Planner's, with the configuration error: no
\* request has gone to the provider or the literature services, no later
\* stage has started, and the call was made once.
C20_MissingCredential ==
    ~credential =>
        /\ rpc \in {"start", "in_parse", "raised"}
        /\ ppc \in {"none", "ask", "raised"}
        /\ asks <= 1
        /\ ppc = "raised" => asks = 1 /\ error = msg_no_key
        /\ rpc = "raised" => ppc = "raised"
        /\ lookups = 0
        /\ fpc = "idle" /\ tries = 0 /\ last_req = NoReq
        /\ \A i \in 1..Len(stages) : stages[i] = "ai_parse_hypothesis"
        /\ DOMAIN plan = {}

\* run_empirica has failed for want of the credential
C20_Witness ==
    /\ ~credential
    /\ rpc = "raised"
    /\ error = msg_no_key
    /\ asks = 1

(***************************************************************************)
(* run_empirica from the review of the merged panel to the check of the    *)
(* bundle (lines 1525-1536)                                                *)
(***************************************************************************)
\* line 1529: the smallest cleaned panel run_empirica goes on with
MIN_CLEANED_ROWS == 10

msg_only == <<"O","n","l","y"," ">>
msg_after_cleaning == <<" ","o","b","s","e","r","v","a","t","i","o","n","s"," ","a","f","t","e","r"," ","c","l","e","a","n","i","n","g",".">>

\* str(n) for n >= 0
RECURSIVE str_of(_)
str_of(n) ==
    IF n < 10 THEN <<DigitChars[n + 1]>>
    ELSE str_of(n \div 10) \o <<DigitChars[(n % 10) + 1]>>

\* line 1526: review = ai_review_data(df, plan).  The summary of lines
\* 739-743 converts the smallest year, which is NaN for an empty panel;
\* then ask_claude_json is called (line 755), answering with one of answers.
\* Neither exception is caught.
run_review(answers) ==
    /\ rpc = "review"
    /\ stages' = Append(stages, "review")
    /\ IF year_min(df.rows) = NaN
       THEN /\ rpc' = "raised"
            /\ error' = msg_nan_int
            /\ UNCHANGED <<review, cpc, asks>>
       ELSE /\ asks' = asks + 1
            /\ \E out \in ask_claude_json(answers) :
                 IF "error" \in DOMAIN out
                 THEN /\ rpc' = "raised"
                      /\ error' = exception_message(out)
                      /\ UNCHANGED <<review, cpc>>
                 ELSE /\ review' = out
                      /\ rpc' = "cleaning"
                      /\ cpc' = "call"
                      /\ UNCHANGED error
    /\ UNCHANGED <<x_data, y_data, df, controls_fetched, ctrl_i, ctrl_sizes>>
    /\ UNCHANGED <<df_in, results, fit_raised, credential, lookups>>
    /\ UNCHANGED planVars
    /\ UNCHANGED fetchVars
    /\ UNCHANGED restVars

\* the row test with the bound one too low
run_check_rows_below_nine ==
    /\ rpc = "cleaning"
    /\ cpc = "cleaned"
    /\ IF Len(df.rows) < MIN_CLEANED_ROWS - 1
       THEN /\ rpc' = "raised"
            /\ error' = msg_only \o str_of(Len(df.rows)) \o msg_after_cleaning
       ELSE /\ rpc' = "statistics"
            /\ UNCHANGED error
    /\ UNCHANGED <<x_data, y_data, df, controls_fetched, ctrl_i, ctrl_sizes>>
    /\ UNCHANGED tailVars
    /\ UNCHANGED <<stages, asks, lookups>>
    /\ UNCHANGED planVars
    /\ UNCHANGED fetchVars
    /\ UNCHANGED restVars

\* lines 1529-1530
run_check_rows ==
    /\ rpc = "cleaning"
    /\ cpc = "cleaned"
    /\ IF Len(df.rows) < MIN_CLEANED_ROWS
       THEN /\ rpc' = "raised"
            /\ error' = msg_only \o str_of(Len(df.rows)) \o msg_after_cleaning
       ELSE /\ rpc' = "statistics"
            /\ UNCHANGED error
    /\ UNCHANGED <<x_data, y_data, df, controls_fetched, ctrl_i, ctrl_sizes>>
    /\ UNCHANGED tailVars
    /\ UNCHANGED <<stages, asks, lookups>>
    /\ UNCHANGED planVars
    /\ UNCHANGED fetchVars
    /\ UNCHANGED restVars

\* the merged panels of SpecTail: balanced, every cell a number
TailFrames ==
    {stat_frame(k, n, FALSE, with_control, TRUE) :
        k \in 0..MaxStatCountries, n \in 1..MaxStatYears, with_control \in BOOLEAN}

\* the reviews of SpecTail
TailReviews ==
    {rv \in Reviews :
        /\ "exclude_zeros_x" \notin DOMAIN rv
        /\ "exclude_zeros_y" \notin DOMAIN rv
        /\ plan_get(rv, "winsorize_percentile", 5) = 5}

\* SpecTail: run_empirica at line 1526 with the merged panel.
InitTail ==
    /\ PlanIdle
    /\ plan = <<>>
    /\ rpc = "review"
    /\ x_data = <<>>
    /\ y_data = <<>>
    /\ df \in TailFrames
    /\ controls_fetched = <<>>
    /\ ctrl_i = 0
    /\ ctrl_sizes = <<>>
    /\ fetch_idle
    /\ TailIdle
    /\ RestIdle

NextTail ==
    \/ run_review(TailReviews)
    \/ clean_call
    \/ run_check_rows
    \/ run_statistics
    \/ run_check_results

SpecTail == InitTail /\ [][NextTail]_vars

\* the row test of line 1529 has been made on the cleaned panel
rows_checked == cpc = "cleaned" /\ rpc # "cleaning"

\* C15: with fewer than 10 rows left by apply_cleaning run_empirica raises
\* an error that states the number of rows left, and neither the statistics
\* engine nor a later stage is invoked; with 10 rows or more the statistics
\* engine is the next stage.
C15_MinimumRows ==
    rows_checked =>
        /\ Len(df.rows) < 10 =>
              /\ rpc = "raised"
              /\ has_word(error, <<DigitChars[Len(df.rows) + 1]>>)
              /\ stages = <<"review", "cleaning">>
              /\ DOMAIN results = {}
        /\ Len(df.rows) >= 10 =>
              \/ rpc = "statistics" /\ stages = <<"review", "cleaning">>
              \/ stages = <<"review", "cleaning", "statistics">>

\* a panel of 10 rows or more was cleaned down to 9 and the run raised
C15_Witness ==
    /\ rows_checked
    /\ rpc = "raised"
    /\ Len(df_in.rows) >= 10
    /\ Len(df.rows) = 9

(***************************************************************************)
(* ask_claude_json on the text of a response (lines 81-92)                 *)
(*                                                                         *)
(* Texts are sequences of characters.  The responses of the model are made *)
(* of braces, double quotes, letters, digits, ':', ',', backquotes, blanks *)
(* and newlines; json.loads is computed for the JSON that alphabet can     *)
(* spell: objects, strings without escapes and unsigned integers.  A TLA+  *)
(* string cannot hold a backquote: the backquote of a code fence is        *)
(* written as the apostrophe, which no response of the model contains.     *)
(***************************************************************************)
\* \s of the regular expressions, str.strip() and JSON whitespace
is_space(c) == c \in {" ", "\n"}

is_digit(c) == \E i \in 1..Len(DigitChars) : DigitChars[i] = c

\* the first position from i on that holds no whitespace
RECURSIVE skip_space(_, _)
skip_space(s, i) ==
    IF i <= Len(s) /\ is_space(s[i]) THEN skip_space(s, i + 1) ELSE i

\* re.sub(marker + r"\s*", "", s) from position i on
RECURSIVE re_sub_marker(_, _, _)
re_sub_marker(s, i, marker) ==
    IF i > Len(s) THEN <<>>
    ELSE IF i + Len(marker) - 1 <= Len(s) /\ SubSeq(s, i, i + Len(marker) - 1) = marker
    THEN re_sub_marker(s, skip_space(s, i + Len(marker)), marker)
    ELSE <<s[i]>> \o re_sub_marker(s, i + 1, marker)

fence == <<"'", "'", "'">>
fence_json == <<"'", "'", "'", "j", "s", "o", "n">>

\* str.strip()
strip(s) ==
    LET solid == {i \in 1..Len(s) : ~is_space(s[i])}
    IN IF solid = {} THEN <<>>
       ELSE SubSeq(s, CHOOSE a \in solid : \A b \in solid : a <= b,
                      CHOOSE a \in solid : \A b \in solid : a >= b)

\* lines 83-85
clean_response(text) == strip(re_sub_marker(re_sub_marker(text, 1, fence_json), 1, fence))

NoParse == [ok |-> FALSE, pos |-> 0, val |-> <<>>]

\* a JSON string starting at i: up to the next double quote, no newline inside
scan_string(s, i) ==
    IF i > Len(s) \/ s[i] # "\"" THEN NoParse
    ELSE LET ends == {j \in (i + 1)..Len(s) : s[j] = "\""}
         IN IF ends = {} THEN NoParse
            ELSE LET j == CHOOSE a \in ends : \A b \in ends : a <= b
                 IN IF \E k \in i..j : s[k] = "\n" THEN NoParse
                    ELSE [ok |-> TRUE, pos |-> j + 1, val |-> SubSeq(s, i, j)]

\* a JSON number starting at i: 0, or a digit run without a leading zero
scan_number(s, i) ==
    IF i > Len(s) \/ ~is_digit(s[i]) THEN NoParse
    ELSE IF s[i] = "0" THEN [ok |-> TRUE, pos |-> i + 1, val |-> <<"0">>]
    ELSE LET stops == {j \in (i + 1)..(Len(s) + 1) : j > Len(s) \/ ~is_digit(s[j])}
             j == CHOOSE a \in stops : \A b \in stops : a <= b
         IN [ok |-> TRUE, pos |-> j, val |-> SubSeq(s, i, j - 1)]

\* the JSON decoder: the value starting at i, as its text without the
\* whitespace between tokens, and the position after it
RECURSIVE scan_value(_, _)
RECURSIVE scan_members(_, _, _)
scan_value(s, i) ==
    IF i > Len(s) THEN NoParse
    ELSE IF s[i] = "{"
    THEN LET j == skip_space(s, i + 1)
         IN IF j <= Len(s) /\ s[j] = "}"
            THEN [ok |-> TRUE, pos |-> j + 1, val |-> <<"{", "}">>]
            ELSE scan_members(s, j, <<"{">>)
    ELSE IF s[i] = "\"" THEN scan_string(s, i)
    ELSE scan_number(s, i)

scan_members(s, j, acc) ==
    LET k == scan_string(s, j)
        c == skip_space(s, k.pos)
        v == scan_value(s, skip_space(s, c + 1))
        e == skip_space(s, v.pos)
    IN IF ~k.ok THEN NoParse
       ELSE IF c > Len(s) \/ s[c] # ":" THEN NoParse
       ELSE IF ~v.ok THEN NoParse
       ELSE IF e > Len(s) THEN NoParse
       ELSE IF s[e] = "}"
       THEN [ok |-> TRUE, pos |-> e + 1,
             val |-> acc \o k.val \o <<":">> \o v.val \o <<"}">>]
       ELSE IF s[e] = ","
       THEN scan_members(s, skip_space(s, e + 1), acc \o k.val \o <<":">> \o v.val \o <<",">>)
       ELSE NoParse

\* json.loads(s): the value, or JSONDecodeError when s is not one JSON value
\* between optional whitespace
json_loads(s) ==
    LET v == scan_value(s, skip_space(s, 1))
    IN IF v.ok /\ skip_space(s, v.pos) > Len(s)
       THEN [ok |-> TRUE, val |-> v.val]
       ELSE [ok |-> FALSE, val |-> <<>>]

\* re.search(r"\{[\s\S]*\}", s): from the first "{" to the last "}" after it
re_search_braces(s) ==
    LET opens == {i \in 1..Len(s) : s[i] = "{"}
    IN IF opens = {} THEN None
       ELSE LET a == CHOOSE i \in opens : \A j \in opens : i <= j
                closes == {i \in (a + 1)..Len(s) : s[i] = "}"}
            IN IF closes = {} THEN None
               ELSE Some(SubSeq(s, a, CHOOSE i \in closes : \A j \in closes : i >= j))

\* lines 82-92: what ask_claude_json returns or raises for the text raw.
\* The json.loads of line 90 runs inside the except block of line 88: its
\* JSONDecodeError is handled by nothing and leaves the function.
parse_response(text) ==
    LET cleaned == clean_response(text)
        whole == json_loads(cleaned)
        match == re_search_braces(cleaned)
    IN IF whole.ok THEN [kind |-> "returned", value |-> whole.val]
       ELSE IF match # None
       THEN LET inner == json_loads(match[1])
            IN IF inner.ok THEN [kind |-> "returned", value |-> inner.val]
               ELSE [kind |-> "raised", value |-> "JSONDecodeError"]
       ELSE [kind |-> "raised", value |-> "Could not parse JSON from Claude response"]

\* line 82 onwards: ask_claude returned raw
json_call ==
    /\ DOMAIN parsed = {}
    /\ parsed' = parse_response(raw)
    /\ UNCHANGED raw
    /\ UNCHANGED <<planVars, runVars, fetchVars, tailVars>>
    /\ UNCHANGED <<error, stages, asks, lookups>>
    /\ UNCHANGED <<appVars, litVars, endVars, objVars>>

\* JSON objects the service writes, with the text json.loads makes of them
ObjectTexts ==
    { [text |-> <<"{", "\"", "a", "\"", ":", "1", "}">>,
       value |-> <<"{", "\"", "a", "\"", ":", "1", "}">>],
      [text |-> <<"{", "\"", "a", "\"", ":", " ", "{", "\"", "b", "\"", ":", " ", "1", "2", "}", "}">>,
       value |-> <<"{", "\"", "a", "\"", ":", "{", "\"", "b", "\"", ":", "1", "2", "}", "}">>],
      [text |-> <<"{", "\n", "\"", "a", "\"", ":", "\"", "x", "\"", ",", " ", "\"", "b", "\"", ":", "0", "\n", "}">>,
       value |-> <<"{", "\"", "a", "\"", ":", "\"", "x", "\"", ",", "\"", "b", "\"", ":", "0", "}">>],
      [text |-> <<"{", "}">>, value |-> <<"{", "}">>] }

\* bodies that hold no JSON object: nothing, plain words, a truncated
\* object, braces around words
OtherTexts ==
    { <<>>,
      <<"n", "o">>,
      <<"{", "\"", "a", "\"", ":", "1">>,
      <<"{", "n", "o", "}">> }

\* what may precede the body: nothing, an opening fence, prose, prose that
\* itself uses braces
Prefixes ==
    { <<>>,
      <<"'", "'", "'", "j", "s", "o", "n", "\n">>,
      <<"'", "'", "'", "\n">>,
      <<"s", "o", ":", " ">>,
      <<"s", "o", " ", "{", "x", "}", ":", " ">> }

\* what may follow it: nothing, a closing fence, prose, prose with braces
Suffixes ==
    { <<>>,
      <<"\n", "'", "'", "'">>,
      <<"\n", "'", "'", "'", "\n">>,
      <<" ", "o", "n">>,
      <<" ", "{", "x", "}">> }

RawResponses ==
    {pre \o body \o post :
        pre \in Prefixes,
        body \in {o.text : o \in ObjectTexts} \cup OtherTexts,
        post \in Suffixes}

\* SpecJson: ask_claude has returned the text raw to ask_claude_json.
InitJson ==
    /\ PlanIdle
    /\ plan = <<>>
    /\ RunIdle
    /\ fetch_idle
    /\ TailIdle
    /\ AppIdle
    /\ LitIdle
    /\ EndIdle
    /\ ObjIdle
    /\ raw \in RawResponses
    /\ parsed = <<>>

NextJson == json_call

SpecJson == InitJson /\ [][NextJson]_vars

\* the prefixes and suffixes without a brace: fences and plain prose
plain(part) == \A i \in 1..Len(part) : part[i] \notin {"{", "}"}

\* C22: ask_claude_json returns the parsed object whenever the response is
\* one JSON object inside code fences or between stray prose, and whenever
\* no JSON object can be parsed out of the response it raises the "Could not
\* parse JSON" error and no other exception.
C22_ExtractsOrExplains ==
    DOMAIN parsed # {} =>
        /\ \A pre \in Prefixes, o \in ObjectTexts, post \in Suffixes :
              raw = pre \o o.text \o post =>
                  parsed = [kind |-> "returned", value |-> o.value]
        /\ \A pre \in Prefixes, body \in OtherTexts, post \in Suffixes :
              raw = pre \o body \o post =>
                  parsed = [kind |-> "raised",
                            value |-> "Could not parse JSON from Claude response"]

(***************************************************************************)
(* LiteratureSearcher.search (lines 712-730)                               *)
(***************************************************************************)
\* most articles either service returns
MaxArticles == 2

\* an article dict as lines 643-647 and 696-700 build it; doi is "" when
\* the service knows none, and PubMed articles carry citations 0
Article(title, doi, citations, source) ==
    [title |-> title, doi |-> doi, citations |-> citations, source |-> source]

\* articles Semantic Scholar may return: two with one title and different
\* DOIs, one without a DOI
SSArticles ==
    { Article("Health spending and longevity", "10.1/a", 5, "Semantic Scholar"),
      Article("Health spending and longevity", "10.1/b", 9, "Semantic Scholar"),
      Article("Public health outlays", "", 5, "Semantic Scholar") }

\* articles PubMed may return: the first of the above again, one without a
\* DOI under a title Semantic Scholar has too, and one of its own
PMArticles ==
    { Article("Health spending and longevity", "10.1/a", 0, "PubMed"),
      Article("Public health outlays", "", 0, "PubMed"),
      Article("Longevity in panels", "10.1/e", 0, "PubMed") }

\* list.sort(key=citations, reverse=True): stable, so articles with equal
\* citations keep their order
RECURSIVE sort_by_citations(_)
sort_by_citations(articles) ==
    IF Len(articles) = 0 THEN <<>>
    ELSE LET sorted == sort_by_citations(SubSeq(articles, 1, Len(articles) - 1))
             a == articles[Len(articles)]
             ahead == Cardinality({i \in 1..Len(sorted) :
                                      sorted[i].citations >= a.citations})
         IN SubSeq(sorted, 1, ahead) \o <<a>> \o SubSeq(sorted, ahead + 1, Len(sorted))

\* what SemanticScholarSearcher.search returns (sorted at line 651) and what
\* PubMedSearcher.search returns; [] when the service fails
SSResults == {sort_by_citations(l) : l \in BSeq(SSArticles, MaxArticles)}
PMResults == BSeq(PMArticles, MaxArticles)

\* a loop that also skips an article whose title it has seen
RECURSIVE dedup_by_doi_or_title(_, _, _)
dedup_by_doi_or_title(articles, seen_dois, seen_titles) ==
    IF Len(articles) = 0 THEN <<>>
    ELSE LET article == Head(articles)
             doi == article.doi
         IN IF (doi # "" /\ doi \in seen_dois) \/ article.title \in seen_titles
            THEN dedup_by_doi_or_title(Tail(articles), seen_dois, seen_titles)
            ELSE <<article>>
                 \o dedup_by_doi_or_title(Tail(articles),
                                          IF doi # "" THEN seen_dois \cup {doi} ELSE seen_dois,
                                          seen_titles \cup {article.title})

\* lines 718-726: the loop over ss_results + pm_results with seen_dois
RECURSIVE dedup(_, _, _)
dedup(articles, seen_dois, seen_titles) ==
    IF Len(articles) = 0 THEN <<>>
    ELSE LET article == Head(articles)
             doi == article.doi
         IN IF doi # "" /\ doi \in seen_dois
            THEN dedup(Tail(articles), seen_dois, seen_titles)
            ELSE <<article>>
                 \o dedup(Tail(articles),
                          IF doi # "" THEN seen_dois \cup {doi} ELSE seen_dois,
                          seen_titles)

\* lines 718-730
search(ss, pm) == sort_by_citations(dedup(ss \o pm, {}, {}))

\* lines 1519-1523: literature = lit.search(...), the two services
\* answering with one of ss_answers and one of pm_answers; both searchers
\* catch their own exceptions
run_literature(ss_answers, pm_answers) ==
    /\ rpc = "literature"
    /\ \E ss \in ss_answers, pm \in pm_answers :
         /\ ss_results' = ss
         /\ pm_results' = pm
         /\ literature' = search(ss, pm)
    /\ rpc' = "review"
    /\ stages' = Append(stages, "literature")
    /\ UNCHANGED <<x_data, y_data, df, controls_fetched, ctrl_i, ctrl_sizes>>
    /\ UNCHANGED <<planVars, fetchVars, tailVars>>
    /\ UNCHANGED <<error, asks, lookups>>
    /\ UNCHANGED <<appVars, jsonVars, endVars, objVars>>

\* SpecLit: run_empirica at line 1519, about to search the literature.
InitLit ==
    /\ PlanIdle
    /\ plan = <<>>
    /\ rpc = "literature"
    /\ x_data = <<>>
    /\ y_data = <<>>
    /\ df = NoFrame
    /\ controls_fetched = <<>>
    /\ ctrl_i = 0
    /\ ctrl_sizes = <<>>
    /\ fetch_idle
    /\ TailIdle
    /\ RestIdle

NextLit == run_literature(SSResults, PMResults)

SpecLit == InitLit /\ [][NextLit]_vars

\* the articles both services returned, Semantic Scholar's first
found == ss_results \o pm_results

\* the positions of found that bear a DOI an earlier position bears
repeats == {j \in 1..Len(found) :
               found[j].doi # "" /\ \E i \in 1..(j - 1) : found[i].doi = found[j].doi}

\* how often article a occurs in the list l
occurrences(a, l) == Cardinality({i \in 1..Len(l) : l[i] = a})

\* C23: the list search returns holds no two records with one DOI, is in
\* descending order of citations, and lacks a record of the two services
\* only where an earlier record bears its DOI; a title shared with another
\* record removes nothing.
C23_DedupAndRank ==
    rpc = "review" =>
        /\ \A i, j \in 1..Len(literature) :
              (i < j /\ literature[i].doi # "") => literature[i].doi # literature[j].doi
        /\ \A i, j \in 1..Len(literature) :
              i < j => literature[i].citations >= literature[j].citations
        /\ Len(literature) = Len(found) - Cardinality(repeats)
        /\ \A a \in SSArticles \cup PMArticles :
              occurrences(a, literature)
                  = Cardinality({j \in 1..Len(found) : found[j] = a /\ j \notin repeats})

\* both services returned the article 10.1/a, PubMed also an article that
\* shares its title with none of its DOI; one copy of the first went and
\* the list is ranked
C23_Witness ==
    /\ rpc = "review"
    /\ Len(found) = 4
    /\ Cardinality(repeats) = 1
    /\ Len(literature) = 3
    /\ \E i, j \in 1..Len(literature) :
          /\ i # j
          /\ literature[i].title = literature[j].title
          /\ literature[i].citations > literature[j].citations

(***************************************************************************)
(* run_empirica as a sequence of stages (lines 1483-1578)                  *)
(*                                                                         *)
(* What each stage computes is modelled in the sections above.  Here a     *)
(* stage is one step whose outcome is the one thing of it that decides     *)
(* what run_empirica does next: whether the call raised, whether a series  *)
(* came back empty, how many rows the cleaned panel has, whether the       *)
(* bundle holds "error".  plan, controls_fetched and the two chart paths   *)
(* are kept, being what the later stages are handed.                       *)
(***************************************************************************)
\* the variables no stage-level step changes
flowFrame ==
    <<hypothesis, ppc, taut, answer, vlog, df, ctrl_sizes, fetchVars, tailVars,
      asks, lookups, appVars, jsonVars, litVars, objVars>>

\* what wb.fetch may return to run_empirica: no observation, or some
fetch_returns ==
    {<<>>, <<observation(Rec("ARG", "Argentina", d_2020, Some(1)))>>}

\* len(df) after apply_cleaning, either side of the threshold of line 1530
cleaned_lengths == {MIN_CLEANED_ROWS - 1, MIN_CLEANED_ROWS}

\* an exception leaves run_empirica: nothing after the raising line runs
stage_raises(message) ==
    /\ rpc' = "raised"
    /\ error' = message

\* line 1493: plan = ai_parse_hypothesis(hypothesis); the call raises when
\* the text-generation call does
stage_plan ==
    /\ rpc = "plan"
    /\ stages' = Append(stages, "ai_parse_hypothesis")
    /\ \/ /\ \E p \in RunPlans : plan' = p
          /\ rpc' = "fetch_x"
          /\ UNCHANGED error
       \/ /\ stage_raises(msg_connection)
          /\ UNCHANGED plan
    /\ UNCHANGED <<x_data, y_data, controls_fetched, ctrl_i, charts, reported>>
    /\ UNCHANGED flowFrame

\* line 1498: x_data = wb.fetch(plan["independent_var"], ...); fetch catches
\* its failures and returns what it has
stage_fetch_x ==
    /\ rpc = "fetch_x"
    /\ stages' = Append(stages, "fetch_x")
    /\ x_data' \in fetch_returns
    /\ rpc' = "fetch_y"
    /\ UNCHANGED <<plan, y_data, controls_fetched, ctrl_i, error, charts, reported>>
    /\ UNCHANGED flowFrame

\* line 1499: y_data = wb.fetch(plan["dependent_var"], ...)
stage_fetch_y ==
    /\ rpc = "fetch_y"
    /\ stages' = Append(stages, "fetch_y")
    /\ y_data' \in fetch_returns
    /\ rpc' = "merge"
    /\ UNCHANGED <<plan, x_data, controls_fetched, ctrl_i, error, charts, reported>>
    /\ UNCHANGED flowFrame

\* lines 1500-1508: raise on an empty series, else the merge and
\* controls_fetched = []
stage_merge ==
    /\ rpc = "merge"
    /\ IF Len(x_data) = 0 \/ Len(y_data) = 0
       THEN /\ stage_raises(msg_no_data)
            /\ UNCHANGED <<controls_fetched, ctrl_i, stages>>
       ELSE /\ controls_fetched' = <<>>
            /\ ctrl_i' = 1
            /\ rpc' = "controls"
            /\ stages' = Append(stages, "merge")
            /\ UNCHANGED error
    /\ UNCHANGED <<plan, x_data, y_data, charts, reported>>
    /\ UNCHANGED flowFrame

\* lines 1509-1515: one turn of the loop over plan["control_vars"]: ctrl is
\* fetched and, when its series is not empty, joined and appended to
\* controls_fetched
stage_control ==
    /\ rpc = "controls"
    /\ ctrl_i <= Len(plan.control_vars)
    /\ stages' = Append(stages, "fetch_control")
    /\ \E cd \in fetch_returns :
         controls_fetched' = IF Len(cd) # 0
                             THEN Append(controls_fetched, plan.control_vars[ctrl_i])
                             ELSE controls_fetched
    /\ ctrl_i' = ctrl_i + 1
    /\ UNCHANGED <<plan, rpc, x_data, y_data, error, charts, reported>>
    /\ UNCHANGED flowFrame

\* lines 1519-1524: lit.search(...) once the loop is exhausted; both
\* searchers catch their failures
stage_literature ==
    /\ rpc = "controls"
    /\ ctrl_i > Len(plan.control_vars)
    /\ stages' = Append(stages, "literature")
    /\ rpc' = "review"
    /\ UNCHANGED <<plan, x_data, y_data, controls_fetched, ctrl_i, error, charts, reported>>
    /\ UNCHANGED flowFrame

\* line 1527: review = ai_review_data(df, plan)
stage_review ==
    /\ rpc = "review"
    /\ stages' = Append(stages, "review")
    /\ \/ /\ rpc' = "cleaning"
          /\ UNCHANGED error
       \/ stage_raises(msg_connection)
    /\ UNCHANGED <<plan, x_data, y_data, controls_fetched, ctrl_i, charts, reported>>
    /\ UNCHANGED flowFrame

\* lines 1528-1530: df = apply_cleaning(df, review) and the check of len(df)
stage_cleaning ==
    /\ rpc = "cleaning"
    /\ stages' = Append(stages, "cleaning")
    /\ \E n \in cleaned_lengths :
         IF n < MIN_CLEANED_ROWS
         THEN stage_raises(msg_only \o str_of(n) \o msg_after_cleaning)
         ELSE /\ rpc' = "statistics"
              /\ UNCHANGED error
    /\ UNCHANGED <<plan, x_data, y_data, controls_fetched, ctrl_i, charts, reported>>
    /\ UNCHANGED flowFrame

\* lines 1533-1536: results = engine.run_all(df, plan) and the check of
\* "error" in results
stage_statistics ==
    /\ rpc = "statistics"
    /\ stages' = Append(stages, "statistics")
    /\ \E has_error \in BOOLEAN :
         IF has_error
         THEN stage_raises(msg_analysis_failed \o msg_insufficient)
         ELSE /\ rpc' = "charts"
              /\ UNCHANGED error
    /\ UNCHANGED <<plan, x_data, y_data, controls_fetched, ctrl_i, charts, reported>>
    /\ UNCHANGED flowFrame

\* the paths either chart call leaves: "" when the call raised
chart_paths(name) == {"", name}

\* the chart calls without their try blocks: a failing chart raises
stage_charts_uncaught ==
    /\ rpc = "charts"
    /\ stages' = Append(stages, "charts")
    /\ \E scatterplot_path \in chart_paths("scatterplot.png"),
          coeff_plot_path \in chart_paths("coefficients.png") :
         /\ charts' = <<scatterplot_path, coeff_plot_path>>
         /\ IF scatterplot_path = "" \/ coeff_plot_path = ""
            THEN stage_raises(msg_connection)
            ELSE /\ rpc' = "interpret"
                 /\ UNCHANGED error
    /\ UNCHANGED <<plan, x_data, y_data, controls_fetched, ctrl_i, reported>>
    /\ UNCHANGED flowFrame

\* lines 1539-1548: both paths start as ""; each chart call sits in its own
\* try, and except Exception only prints
stage_charts ==
    /\ rpc = "charts"
    /\ stages' = Append(stages, "charts")
    /\ \E scatterplot_path \in chart_paths("scatterplot.png"),
          coeff_plot_path \in chart_paths("coefficients.png") :
         charts' = <<scatterplot_path, coeff_plot_path>>
    /\ rpc' = "interpret"
    /\ UNCHANGED <<plan, x_data, y_data, controls_fetched, ctrl_i, error, reported>>
    /\ UNCHANGED flowFrame

\* line 1551: interpretation = ai_interpret_results(results, plan)
stage_interpret ==
    /\ rpc = "interpret"
    /\ stages' = Append(stages, "interpret")
    /\ \/ /\ rpc' = "write"
          /\ UNCHANGED error
       \/ stage_raises(msg_connection)
    /\ UNCHANGED <<plan, x_data, y_data, controls_fetched, ctrl_i, charts, reported>>
    /\ UNCHANGED flowFrame

\* what one downstream output names as the controls of the analysis
names_controls(output, controls) == [output |-> output, controls |-> controls]

\* lines 1554-1555 and 1086: PaperWriter(plan, results, interpretation,
\* literature).write_all(); the data prompt lists the label of every
\* element of plan["control_vars"]
stage_write ==
    /\ rpc = "write"
    /\ stages' = Append(stages, "write")
    /\ \/ /\ reported' = Append(reported, names_controls("paper", plan.control_vars))
          /\ rpc' = "proofread"
          /\ UNCHANGED error
       \/ /\ stage_raises(msg_connection)
          /\ UNCHANGED reported
    /\ UNCHANGED <<plan, x_data, y_data, controls_fetched, ctrl_i, charts>>
    /\ UNCHANGED flowFrame

\* line 1558: sections = ai_proofread(sections)
stage_proofread ==
    /\ rpc = "proofread"
    /\ stages' = Append(stages, "proofread")
    /\ \/ /\ rpc' = "assemble"
          /\ UNCHANGED error
       \/ stage_raises(msg_connection)
    /\ UNCHANGED <<plan, x_data, y_data, controls_fetched, ctrl_i, charts, reported>>
    /\ UNCHANGED flowFrame

\* lines 1561-1564 and 1298-1398: assembler.create(plan, sections, results,
\* literature, controls_fetched, ...); create never reads controls_fetched
\* and the document lists no controls of its own
stage_assemble ==
    /\ rpc = "assemble"
    /\ stages' = Append(stages, "assemble")
    /\ rpc' = "reproduce"
    /\ UNCHANGED <<plan, x_data, y_data, controls_fetched, ctrl_i, error, charts, reported>>
    /\ UNCHANGED flowFrame

\* lines 1566-1567 and 1404-1406: ReproductionScriptGenerator().generate(
\* plan, review, results, repro_path); CONTROLS holds the code of every
\* element of plan["control_vars"]
stage_reproduce ==
    /\ rpc = "reproduce"
    /\ stages' = Append(stages, "reproduce")
    /\ reported' = Append(reported, names_controls("script", plan.control_vars))
    /\ rpc' = "returned"
    /\ UNCHANGED <<plan, x_data, y_data, controls_fetched, ctrl_i, error, charts>>
    /\ UNCHANGED flowFrame

\* SpecRun: run_empirica is entered.
InitRun ==
    /\ PlanIdle
    /\ plan = <<>>
    /\ rpc = "plan"
    /\ x_data = <<>>
    /\ y_data = <<>>
    /\ df = NoFrame
    /\ controls_fetched = <<>>
    /\ ctrl_i = 0
    /\ ctrl_sizes = <<>>
    /\ fetch_idle
    /\ TailIdle
    /\ RestIdle

NextRun ==
    \/ stage_plan
    \/ stage_fetch_x
    \/ stage_fetch_y
    \/ stage_merge
    \/ stage_control
    \/ stage_literature
    \/ stage_review
    \/ stage_cleaning
    \/ stage_statistics
    \/ stage_charts
    \/ stage_interpret
    \/ stage_write
    \/ stage_proofread
    \/ stage_assemble
    \/ stage_reproduce

SpecRun == InitRun /\ [][NextRun]_vars

\* the elements of a sequence
elements(seq) == {seq[i] : i \in 1..Len(seq)}

\* C24: every downstream output names only controls actually fetched: a
\* planned control whose series came back empty is named by none of them.
C24_FetchedControlsReported ==
    \A i \in 1..Len(reported) :
        elements(reported[i].controls) \subseteq elements(controls_fetched)

\* the order of the stages in run_empirica
stage_order ==
    <<"ai_parse_hypothesis", "fetch_x", "fetch_y", "merge", "fetch_control",
      "literature", "review", "cleaning", "statistics", "charts", "interpret",
      "write", "proofread", "assemble", "reproduce">>

\* the place of a stage in stage_order
rank(stage) == CHOOSE k \in 1..Len(stage_order) : stage_order[k] = stage

\* the stages invoked so far follow stage_order: none twice (the control
\* fetch, once per planned control, counts as one stage), none before an
\* earlier one, and none without every earlier one (the control fetch is
\* absent when no control is planned)
C26_State ==
    /\ \A i, j \in 1..Len(stages) :
         i < j => \/ rank(stages[i]) < rank(stages[j])
                  \/ stages[i] = "fetch_control" /\ stages[j] = "fetch_control"
    /\ \A i \in 1..Len(stages) :
         \A k \in 1..(rank(stages[i]) - 1) :
            stage_order[k] # "fetch_control" =>
                \E h \in 1..(i - 1) : stages[h] = stage_order[k]

\* after an exception left run_empirica no stage runs, and the step that
\* makes the charts never raises
C26_Step ==
    /\ rpc = "raised" => stages' = stages
    /\ rpc = "charts" => rpc' = "interpret"

\* C26: the stages run at most once each in the fixed order, each after
\* every earlier one, none after a fatal error, and a failing chart does
\* not abort the run.
C26_StageOrder == []C26_State /\ [][C26_Step]_vars

\* a run that lost both charts and still reached its end, every stage run
C26_Witness ==
    /\ rpc = "returned"
    /\ charts = <<"", "">>
    /\ elements(stages) = elements(stage_order)

(***************************************************************************)
(* app.py: the run handler (lines 987-1080)                                *)
(*                                                                         *)
(* Every browser session executes the script in a thread of its own, in    *)
(* one process: os.environ is shared by the sessions, result_box is a      *)
(* local of one execution of the script.  app[s] is the execution of       *)
(* session s: its sidebar inputs, the position of its script thread (mpc)  *)
(* and of its worker thread (wpc), and its result_box.                     *)
(***************************************************************************)
\* most calls of ask_claude one run of run_empirica makes
MaxAsks == 2

\* the sessions that press the run button
Sessions == {1, 2}

\* what the sidebar field holds: nothing, or one of two users' keys
ApiKeys == {"", "sk-ant-a", "sk-ant-b"}

\* what the hypothesis field holds
AppHypotheses == {<<" ">>, <<"g","d","p">>}

\* str(e) of the exceptions run_empirica raises
ExceptionMessages == {msg_connection, msg_no_data}

\* lines 1007-1013 with the two writes exchanged: done is set first
worker_writes_done_first(outcome) ==
    IF outcome = None THEN <<"done">> ELSE <<"done", "error">>

\* lines 1007-1013: the keys of result_box run_pipeline writes once
\* run_empirica has ended, in their order: error in the except block when an
\* exception was raised, done in the finally block always
worker_writes(outcome) ==
    IF outcome = None THEN <<"done">> ELSE <<"error", "done">>

\* the sessions other than s are left as they are
only(s, rec) == app' = [app EXCEPT ![s] = rec]

\* everything but the app's own state
appFrame ==
    <<planVars, runVars, fetchVars, tailVars, error, stages, asks, lookups,
      jsonVars, litVars, endVars, objVars>>

\* lines 987-1016: the run button is pressed.  Without a key or a
\* hypothesis the script stops; else the key is written into os.environ,
\* result_box is created and the worker thread is started
script_run(s) ==
    /\ app[s].mpc = "idle"
    /\ IF app[s].api_key = "" \/ strip(app[s].hypothesis) = <<>>
       THEN /\ only(s, [app[s] EXCEPT !.mpc = "stopped"])
            /\ UNCHANGED environ
       ELSE /\ environ' = Some(app[s].api_key)
            /\ only(s, [app[s] EXCEPT !.mpc = "polling",
                                      !.wpc = "running",
                                      !.result_box = [error |-> None, done |-> FALSE]])
    /\ UNCHANGED appFrame

\* lines 63-67 and 70-78: one call of ask_claude inside run_empirica:
\* get_claude_client reads os.environ at the moment of the call
worker_ask(s) ==
    /\ app[s].wpc = "running"
    /\ app[s].asked < MaxAsks
    /\ IF environ = None \/ environ = Some("")
       THEN only(s, [app[s] EXCEPT !.wpc = "handler",
                                   !.outcome = Some(msg_no_key),
                                   !.pending = worker_writes(Some(msg_no_key))])
       ELSE only(s, [app[s] EXCEPT !.asked = @ + 1,
                                   !.used = @ \cup {environ[1]}])
    /\ UNCHANGED environ
    /\ UNCHANGED appFrame

\* line 1009: run_empirica(hypothesis) returns
worker_returns(s) ==
    /\ app[s].wpc = "running"
    /\ only(s, [app[s] EXCEPT !.wpc = "handler",
                              !.outcome = None,
                              !.pending = worker_writes(None)])
    /\ UNCHANGED environ
    /\ UNCHANGED appFrame

\* line 1009: run_empirica(hypothesis) raises an Exception e
worker_raises(s) ==
    /\ app[s].wpc = "running"
    /\ \E e \in ExceptionMessages :
         only(s, [app[s] EXCEPT !.wpc = "handler",
                                !.outcome = Some(e),
                                !.pending = worker_writes(Some(e))])
    /\ UNCHANGED environ
    /\ UNCHANGED appFrame

\* lines 1010-1013: the next write of run_pipeline: result_box["error"] =
\* str(e) or result_box["done"] = True; after the last one the thread ends
worker_write(s) ==
    /\ app[s].wpc = "handler"
    /\ LET k == Head(app[s].pending)
           box == IF k = "error"
                  THEN [app[s].result_box EXCEPT !.error = app[s].outcome]
                  ELSE [app[s].result_box EXCEPT !.done = TRUE]
       IN only(s, [app[s] EXCEPT !.result_box = box,
                                 !.pending = Tail(@),
                                 !.wpc = IF Len(app[s].pending) = 1
                                         THEN "ended" ELSE "handler"])
    /\ UNCHANGED environ
    /\ UNCHANGED appFrame

\* lines 1021-1022: the loop condition finds result_box["done"] set; until
\* then the loop sleeps and redraws the console
poll_done(s) ==
    /\ app[s].mpc = "polling"
    /\ app[s].result_box.done
    /\ only(s, [app[s] EXCEPT !.mpc = "join"])
    /\ UNCHANGED environ
    /\ UNCHANGED appFrame

\* line 1059: thread.join() returns when the worker thread has ended
thread_join(s) ==
    /\ app[s].mpc = "join"
    /\ app[s].wpc = "ended"
    /\ only(s, [app[s] EXCEPT !.mpc = "joined"])
    /\ UNCHANGED environ
    /\ UNCHANGED appFrame

\* lines 1066-1080: result_box["error"] is read; a value that is neither
\* None nor "" is shown as the pipeline's error
show_result(s) ==
    /\ app[s].mpc = "joined"
    /\ only(s, [app[s] EXCEPT !.mpc = "shown",
                              !.seen = Some(app[s].result_box.error),
                              !.shown = IF app[s].result_box.error \in {None, Some(<<>>)}
                                        THEN "success" ELSE "error"])
    /\ UNCHANGED environ
    /\ UNCHANGED appFrame

\* a session whose run button has not been pressed
session(api_key, hyp) ==
    [api_key |-> api_key, hypothesis |-> hyp, mpc |-> "idle", wpc |-> "none",
     result_box |-> [error |-> None, done |-> FALSE], asked |-> 0, used |-> {},
     outcome |-> None, pending |-> <<>>, seen |-> None, shown |-> "nothing"]

\* SpecApp: the server runs, two sessions have filled in the sidebar.
InitApp ==
    /\ PlanIdle
    /\ plan = <<>>
    /\ RunIdle
    /\ fetch_idle
    /\ TailIdle
    /\ JsonIdle
    /\ LitIdle
    /\ EndIdle
    /\ ObjIdle
    /\ environ = None
    /\ app \in {[s \in Sessions |-> session(k[s], h[s])] :
                    k \in [Sessions -> ApiKeys], h \in [Sessions -> AppHypotheses]}

script_step(s) ==
    \/ script_run(s)
    \/ poll_done(s)
    \/ thread_join(s)
    \/ show_result(s)

NextApp ==
    \E s \in Sessions :
        \/ script_run(s)
        \/ worker_ask(s)
        \/ worker_returns(s)
        \/ worker_raises(s)
        \/ worker_write(s)
        \/ poll_done(s)
        \/ thread_join(s)
        \/ show_result(s)

SpecApp == InitApp /\ [][NextApp]_vars

\* both threads of a session are scheduled again and again: the handler of
\* run_pipeline makes its writes, and the loop sleeps half a second a turn.
\* Nothing makes run_empirica itself end.
FairSpecApp ==
    SpecApp /\ \A s \in Sessions : WF_vars(worker_write(s)) /\ WF_vars(script_step(s))

\* C21: every text-generation call of a run uses the credential the run
\* was started with, whatever the other run does meanwhile.
C21_OwnCredential ==
    \A s \in Sessions : app[s].used \subseteq {app[s].api_key}

\* result_box of a session, once done is set, is final and tells the
\* outcome of the run: the message of the exception, or None
C30_State ==
    \A s \in Sessions :
        /\ app[s].result_box.done =>
              /\ app[s].wpc = "ended"
              /\ app[s].result_box.error = app[s].outcome
        /\ app[s].mpc = "shown" => app[s].seen = Some(app[s].outcome)

\* the run of s has ended, by a return or by an exception
pipeline_ended(s) == app[s].wpc \in {"handler", "ended"}

\* C30: the worker sets done on every outcome and writes error before
\* done, so the polling loop ends once the pipeline has ended and the
\* script thread reads the final error value of the run.
C30_DoneAfterError ==
    /\ []C30_State
    /\ \A s \in Sessions : pipeline_ended(s) ~> (app[s].mpc = "shown")

\* both sessions ran to their end, one run raised and one returned
C30_Witness ==
    /\ \A s \in Sessions : app[s].mpc = "shown"
    /\ \E s \in Sessions : app[s].shown = "error" /\ app[s].seen = Some(Some(msg_connection))
    /\ \E s \in Sessions : app[s].shown = "success" /\ app[s].seen = Some(None)

====
